---- MODULE Spec2Model ----
(***************************************************************************)
(* Verification model of patchkit: the lossless patch parser (edit::lex,   *)
(* edit::parse), the semantic unified-diff model (unified.rs) and the      *)
(* quilt series editor (edit::quilt).  Byte strings are sequences of       *)
(* one-character strings; a line is a byte string ending (usually) in      *)
(* "\n".                                                                   *)
(***************************************************************************)
EXTENDS Integers, Sequences, FiniteSets, TLC

VARIABLES
    \* ---- lossless patch parser (edit/lex.rs, edit/parse.rs) ----
    lpc,        \* phase of the parse: "lexing", "parsing", "done"
    input,      \* Lexer.input
    lexcursor,  \* Lexer.cursor (1-based here)
    start_of_line, \* Lexer.start_of_line
    tokens,     \* Parser.tokens
    cursor,     \* Parser.cursor (1-based here)
    builder,    \* GreenNodeBuilder: the flat event list of the tree
    errors,     \* Parser.errors
    \* ---- semantic unified-diff model (unified.rs) ----
    upc,          \* phase: "names", "hunks", "parsed", "applying", "applied"
    patch_lines,  \* the lines given to parse_patch
    iter_lines,   \* the iter_lines_handle_nl iterator inside parse_patch
    patch,        \* the UnifiedPatch being built
    parse_result, \* what parse_patch returned
    orig,         \* the bytes given to apply_exact
    patched,      \* the PatchedIter inside apply_exact
    collected,    \* the lines collected from it so far
    conflict,     \* the PatchConflict it returned, if any
    apply_result, \* what apply_exact returned
    \* ---- multi-file stream splitter (unified.rs, FileEntryIter) ----
    spc,          \* "running", "ended", "panicked"
    stream,       \* the lines given to iter_file_patch
    file_iter,    \* the FileEntryIter
    entries,      \* what it has yielded so far, in order
    overflow_checks, \* whether the build panics on integer overflow
    patches,      \* what parse_patches over the same stream has yielded so far
    \* ---- quilt series editor (edit/quilt) ----
    qpc,          \* "start" before parse(text) has run, "parsed" after
    series_text,  \* the text given to quilt::parse
    workload,     \* how many threads edit, and how many edits each makes
    greens,       \* the green root nodes alive, by identity (Arc)
    parsed,       \* the Parse<SeriesFile>: its green node and its errors
    trees,        \* the mutable syntax trees, each pointing at its green root
    series,       \* per thread, the SeriesFile it edits (0: none yet)
    edits,        \* per thread, the number of edits it has made
    last_edit,    \* per thread, its last edit with the green root before it
    snapshot,     \* history: the green node as parse built it
    \* ---- the Hunk primitive (unified.rs, Hunk) ----
    hpc,          \* "hunk", "line", "parsed", "written", "shifted"
    hunk,         \* the Hunk the calls are made on, as an Option
    header,       \* the line given to Hunk::from_header
    from_header_result, \* what Hunk::from_header returned
    bytes_out,    \* what Hunk::as_bytes returned for the parsed hunk
    shift_pos,    \* the position given to Hunk::shift_to_mod
    shift_result, \* what Hunk::shift_to_mod returned
    hunk_overflow_checks, \* whether the build panics on integer overflow
    \* ---- ed-style patches (ed.rs) ----
    epc,          \* "text", then "ready" or "rejected", then "applied"
    ed_text,      \* the bytes given to EdPatch::parse_patch, if any
    ed_patch,     \* the EdPatch: its hunks
    ed_data,      \* the line array given to apply
    ed_result,    \* what apply returned
    ed_overflow_checks \* whether the build panics on integer overflow

lvars == <<lpc, input, lexcursor, start_of_line, tokens, cursor, builder, errors>>
uvars == <<upc, patch_lines, iter_lines, patch, parse_result, orig, patched,
           collected, conflict, apply_result>>
svars == <<spc, stream, file_iter, entries, overflow_checks, patches>>
qvars == <<qpc, series_text, workload, greens, parsed, trees, series, edits,
           last_edit, snapshot>>
hvars == <<hpc, hunk, header, from_header_result, bytes_out, shift_pos, shift_result,
           hunk_overflow_checks>>
evars == <<epc, ed_text, ed_patch, ed_data, ed_result, ed_overflow_checks>>
vars == <<lvars, uvars, svars, qvars, hvars, evars>>

\* the variables outside each subsystem
not_l == <<uvars, svars, qvars, hvars, evars>>
not_u == <<lvars, svars, qvars, hvars, evars>>
not_s == <<lvars, uvars, qvars, hvars, evars>>
not_q == <<lvars, uvars, svars, hvars, evars>>
not_h == <<lvars, uvars, svars, qvars, evars>>
not_e == <<lvars, uvars, svars, qvars, hvars>>

\* a subsystem that takes no part in a specification stays idle
LIdle ==
    /\ lpc = "idle" /\ input = <<>> /\ lexcursor = 1 /\ start_of_line = TRUE
    /\ tokens = <<>> /\ cursor = 1 /\ builder = <<>> /\ errors = <<>>
UIdle ==
    /\ upc = "idle" /\ patch_lines = <<>> /\ iter_lines = <<>> /\ patch = <<>>
    /\ parse_result = <<>> /\ orig = <<>> /\ patched = <<>> /\ collected = <<>>
    /\ conflict = <<>> /\ apply_result = <<>>
SIdle ==
    /\ spc = "idle" /\ stream = <<>> /\ file_iter = <<>> /\ entries = <<>>
    /\ overflow_checks = FALSE /\ patches = <<>>
QIdle ==
    /\ qpc = "idle" /\ series_text = <<>> /\ workload = <<>> /\ greens = <<>>
    /\ parsed = <<>> /\ trees = <<>> /\ series = <<>> /\ edits = <<>>
    /\ last_edit = <<>> /\ snapshot = <<>>
HIdle ==
    /\ hpc = "idle" /\ hunk = <<>> /\ header = <<>> /\ from_header_result = <<>>
    /\ bytes_out = <<>> /\ shift_pos = 0 /\ shift_result = <<>>
    /\ hunk_overflow_checks = FALSE
EIdle ==
    /\ epc = "idle" /\ ed_text = <<>> /\ ed_patch = <<>> /\ ed_data = <<>> /\ ed_result = <<>>
    /\ ed_overflow_checks = FALSE

----------------------------------------------------------------------------
(* Generic helpers                                                         *)

Min(S) == CHOOSE x \in S : \A y \in S : x <= y
Max(S) == CHOOSE x \in S : \A y \in S : x >= y

\* concatenation of a sequence of sequences (split in halves)
RECURSIVE Concat(_)
Concat(ss) ==
    IF Len(ss) = 0 THEN <<>>
    ELSE IF Len(ss) = 1 THEN ss[1]
    ELSE LET h == Len(ss) \div 2
         IN Concat(SubSeq(ss, 1, h)) \o Concat(SubSeq(ss, h + 1, Len(ss)))

StartsWith(s, pre) == Len(s) >= Len(pre) /\ SubSeq(s, 1, Len(pre)) = pre
EndsWith(s, suf) == Len(s) >= Len(suf) /\ SubSeq(s, Len(s) - Len(suf) + 1, Len(s)) = suf

InsertAt(s, i, e) == SubSeq(s, 1, i) \o <<e>> \o SubSeq(s, i + 1, Len(s))

----------------------------------------------------------------------------
(* edit/lex.rs: the patch lexer                                            *)

Digits == {"0", "1", "2", "3", "4", "5", "6", "7", "8", "9"}
WsChars == {" ", "\t"}
TextDelims == {"\n", "\r", " ", "\t", "-", "+", "@", ",", ":", ".", "/",
               "*", "!", "<", ">", "\\"}
EdLetters == {"a", "c", "d"}

Tk(k, s, i, j) == [kind |-> k, text |-> SubSeq(s, i, j - 1)]

\* first position >= i whose character is not in S (Len+1 when none)
consume_while(s, i, S) ==
    LET js == {j \in i..Len(s) : s[j] \notin S}
    IN IF js = {} THEN Len(s) + 1 ELSE Min(js)

could_be_ed_command(s, i) == i > 1 /\ s[i - 1] \in Digits

\* end of a TEXT run starting at i
text_run_end(s, i) ==
    LET js == {j \in i..Len(s) :
                  \/ s[j] \in TextDelims
                  \/ (s[j] \in EdLetters /\ could_be_ed_command(s, j))}
    IN IF js = {} THEN Len(s) + 1 ELSE Min(js)

SingleKind(c) ==
    CASE c = "-" -> "MINUS" [] c = "+" -> "PLUS" [] c = "@" -> "AT"
      [] c = "," -> "COMMA" [] c = ":" -> "COLON" [] c = "." -> "DOT"
      [] c = "/" -> "SLASH" [] c = "*" -> "STAR" [] c = "!" -> "EXCLAMATION"
      [] c = "<" -> "LESS_THAN" [] c = ">" -> "GREATER_THAN"
      [] c = "\\" -> "BACKSLASH" [] c = "a" -> "LETTER_A"
      [] c = "c" -> "LETTER_C" [] c = "d" -> "LETTER_D"

\* Lexer::next: the token at position i and the lexer state after it
LexerNext(s, i, sol) ==
    LET c == s[i] IN
    CASE c = "\n" -> [tok |-> Tk("NEWLINE", s, i, i + 1), next |-> i + 1, sol |-> TRUE]
      [] c = "\r" ->
            IF i + 1 <= Len(s) /\ s[i + 1] = "\n"
            THEN [tok |-> Tk("NEWLINE", s, i, i + 2), next |-> i + 2, sol |-> TRUE]
            ELSE [tok |-> Tk("NEWLINE", s, i, i + 1), next |-> i + 1, sol |-> TRUE]
      [] c = " " ->
            IF sol
            THEN [tok |-> Tk("SPACE", s, i, i + 1), next |-> i + 1, sol |-> FALSE]
            ELSE LET j == consume_while(s, i, WsChars)
                 IN [tok |-> Tk("WHITESPACE", s, i, j), next |-> j, sol |-> sol]
      [] c = "\t" ->
            LET j == consume_while(s, i, WsChars)
            IN [tok |-> Tk("WHITESPACE", s, i, j), next |-> j, sol |-> sol]
      [] c \in {"-", "+", "@", "*", "!", "<", ">"} ->
            [tok |-> Tk(SingleKind(c), s, i, i + 1), next |-> i + 1, sol |-> FALSE]
      [] c \in {",", ":", ".", "/", "\\"} ->
            [tok |-> Tk(SingleKind(c), s, i, i + 1), next |-> i + 1, sol |-> sol]
      [] c \in EdLetters /\ could_be_ed_command(s, i) ->
            [tok |-> Tk(SingleKind(c), s, i, i + 1), next |-> i + 1, sol |-> sol]
      [] c \in Digits /\ ~(c \in EdLetters) ->
            LET j == consume_while(s, i, Digits)
            IN [tok |-> Tk("NUMBER", s, i, j), next |-> j, sol |-> sol]
      [] OTHER ->
            LET j == text_run_end(s, i)
            IN [tok |-> Tk("TEXT", s, i, j), next |-> j, sol |-> FALSE]

----------------------------------------------------------------------------
(* edit/parse.rs: the lossless patch parser.  A parser state p is the      *)
(* record [cursor, out]: Parser.cursor and the events handed to the        *)
(* GreenNodeBuilder so far; t is Parser.tokens.                            *)

Open(k) == [e |-> "open", kind |-> k, text |-> <<>>]
Close == [e |-> "close", kind |-> "NONE", text |-> <<>>]
TokEv(k, txt) == [e |-> "tok", kind |-> k, text |-> txt]

kindAt(t, i) == IF i >= 1 /\ i <= Len(t) THEN t[i].kind ELSE "NONE"
textAt(t, i) == IF i >= 1 /\ i <= Len(t) THEN t[i].text ELSE <<>>

current_kind(t, p) == kindAt(t, p.cursor)
peek_kind(t, p, offset) == kindAt(t, p.cursor + offset)
at(t, p, k) == current_kind(t, p) = k
at_end(t, p) == p.cursor > Len(t)

advance(t, p) ==
    IF p.cursor <= Len(t)
    THEN [cursor |-> p.cursor + 1,
          out |-> Append(p.out, TokEv(t[p.cursor].kind, t[p.cursor].text))]
    ELSE p

advance_without_emit(t, p) ==
    IF p.cursor <= Len(t) THEN [p EXCEPT !.cursor = @ + 1] ELSE p

start_node(p, k) == [p EXCEPT !.out = Append(@, Open(k))]
finish_node(p) == [p EXCEPT !.out = Append(@, Close)]
checkpoint(p) == Len(p.out)
start_node_at(p, cp, k) == [p EXCEPT !.out = InsertAt(@, cp, Open(k))]
token(p, k, txt) == [p EXCEPT !.out = Append(@, TokEv(k, txt))]

\* first index >= i whose kind is (not) in K; Len(t)+1 when there is none
FirstNotIn(t, i, K) ==
    LET js == {j \in i..Len(t) : t[j].kind \notin K}
    IN IF js = {} THEN Len(t) + 1 ELSE Min(js)
FirstIn(t, i, K) ==
    LET js == {j \in i..Len(t) : t[j].kind \in K}
    IN IF js = {} THEN Len(t) + 1 ELSE Min(js)

\* advance() repeated until the cursor is j
AdvanceTo(t, p, j) ==
    IF j <= p.cursor THEN p
    ELSE [cursor |-> j,
          out |-> p.out \o [i \in 1..(j - p.cursor) |->
                     TokEv(t[p.cursor + i - 1].kind, t[p.cursor + i - 1].text)]]

skip_whitespace(t, p) == AdvanceTo(t, p, FirstNotIn(t, p.cursor, {"WHITESPACE"}))

\* skip_to_next_line without its final advance over the NEWLINE
skip_to_next_line_stopping(t, p) ==
    AdvanceTo(t, p, FirstIn(t, p.cursor, {"NEWLINE"}))

skip_to_next_line(t, p) ==
    LET q == AdvanceTo(t, p, FirstIn(t, p.cursor, {"NEWLINE"}))
    IN IF at(t, q, "NEWLINE") THEN advance(t, q) ELSE q

skip_to_eol(t, p) ==
    LET q == AdvanceTo(t, p, FirstIn(t, p.cursor, {"NEWLINE"}))
    IN IF at(t, q, "NEWLINE") THEN advance(t, q) ELSE q

NoText == [some |-> FALSE, text |-> <<>>]
SomeText(x) == [some |-> TRUE, text |-> x]

Pat3Minus == <<"-", "-", "-">>
Pat3Plus == <<"+", "+", "+">>
Pat2At == <<"@", "@">>
Pat3Star == <<"*", "*", "*">>

HeaderPattern(txt) ==
    IF Len(txt) >= 2 /\ StartsWith(txt, Pat3Minus) THEN SomeText(Pat3Minus)
    ELSE IF Len(txt) >= 2 /\ StartsWith(txt, Pat3Plus) THEN SomeText(Pat3Plus)
    ELSE IF Len(txt) >= 2 /\ StartsWith(txt, Pat2At) THEN SomeText(Pat2At)
    ELSE IF Len(txt) >= 3 /\ StartsWith(txt, Pat3Star) THEN SomeText(Pat3Star)
    ELSE NoText

peek_text(t, p, offset) ==
    LET start == p.cursor + offset
        n == IF start > Len(t) THEN 0
             ELSE IF start + 2 <= Len(t) THEN 3 ELSE Len(t) - start + 1
        acc(i) == Concat([k \in 1..i |-> t[start + k - 1].text])
        hits == {i \in 1..n : HeaderPattern(acc(i)).some}
    IN IF hits # {} THEN HeaderPattern(acc(Min(hits)))
       ELSE IF start + offset <= Len(t) THEN SomeText(t[start + offset].text)
       ELSE NoText

PathKinds == {"TEXT", "SLASH", "DOT", "NUMBER", "COLON", "BACKSLASH"}
ContextPathKinds == PathKinds \cup {"MINUS", "STAR"}

\* the path loop shared by parse_old_file, parse_new_file, parse_file_path:
\* tokens of the given kinds are taken without being emitted and re-emitted
\* as one PATH token
\* (variant: the path tokens are consumed and no PATH token is emitted)
collect_path_unemitted(t, p, kinds) ==
    [p EXCEPT !.cursor = FirstNotIn(t, p.cursor, kinds)]

collect_path(t, p, kinds) ==
    LET j == FirstNotIn(t, p.cursor, kinds)
        parts == [k \in 1..(j - p.cursor) |-> t[p.cursor + k - 1].text]
        q == [p EXCEPT !.cursor = j]
    IN IF parts # <<>> THEN token(q, "PATH", Concat(parts)) ELSE q

parse_old_file(t, p) ==
    LET p1 == advance(t, advance(t, advance(t, start_node(p, "OLD_FILE"))))
        p2 == skip_whitespace(t, p1)
        p3 == collect_path(t, p2, PathKinds)
        p4 == skip_to_eol(t, p3)
    IN finish_node(p4)

parse_new_file(t, p) ==
    LET p1 == advance(t, advance(t, advance(t, start_node(p, "NEW_FILE"))))
        p2 == skip_whitespace(t, p1)
        p3 == collect_path(t, p2, PathKinds)
        p4 == skip_to_eol(t, p3)
    IN finish_node(p4)

is_hunk_end_files_only(t, p) ==
    \/ (at(t, p, "MINUS") /\ peek_text(t, p, 0) = SomeText(Pat3Minus))
    \/ (at(t, p, "PLUS") /\ peek_text(t, p, 0) = SomeText(Pat3Plus))

is_hunk_end(t, p) ==
    \/ (at(t, p, "AT") /\ peek_text(t, p, 0) = SomeText(Pat2At))
    \/ (at(t, p, "MINUS") /\ peek_text(t, p, 0) = SomeText(Pat3Minus))
    \/ (at(t, p, "PLUS") /\ peek_text(t, p, 0) = SomeText(Pat3Plus))

parse_hunk_range(t, p) ==
    LET p1 == advance(t, start_node(p, "HUNK_RANGE"))
        p2 == IF at(t, p1, "NUMBER") THEN advance(t, p1) ELSE p1
        p3 == IF at(t, p2, "COMMA")
              THEN LET c == advance(t, p2)
                   IN IF at(t, c, "NUMBER") THEN advance(t, c) ELSE c
              ELSE p2
    IN finish_node(p3)

parse_hunk_header(t, p) ==
    LET p1 == advance(t, advance(t, start_node(p, "HUNK_HEADER")))
        p2 == skip_whitespace(t, p1)
        p3 == IF at(t, p2, "MINUS") THEN parse_hunk_range(t, p2) ELSE p2
        p4 == skip_whitespace(t, p3)
        p5 == IF at(t, p4, "PLUS") THEN parse_hunk_range(t, p4) ELSE p4
        p6 == skip_whitespace(t, p5)
        p7 == IF at(t, p6, "AT") THEN advance(t, advance(t, p6)) ELSE p6
        p8 == skip_to_eol(t, p7)
    IN finish_node(p8)

parse_hunk_line(t, p) ==
    LET cp == checkpoint(p)
        k == current_kind(t, p)
        p1 == CASE k = "SPACE" -> advance(t, start_node_at(p, cp, "CONTEXT_LINE"))
                [] k = "PLUS" -> advance(t, start_node_at(p, cp, "ADD_LINE"))
                [] k = "MINUS" -> advance(t, start_node_at(p, cp, "DELETE_LINE"))
                [] OTHER -> start_node_at(p, cp, "CONTEXT_LINE")
        p2 == skip_to_eol(t, p1)
    IN finish_node(p2)

RECURSIVE hunk_lines_loop(_, _)
hunk_lines_loop(t, p) ==
    IF ~at_end(t, p) /\ ~is_hunk_end(t, p)
    THEN hunk_lines_loop(t, parse_hunk_line(t, p))
    ELSE p

RECURSIVE invalid_hunk_loop(_, _)
invalid_hunk_loop(t, p) ==
    IF ~at_end(t, p) /\ ~is_hunk_end(t, p)
    THEN invalid_hunk_loop(t, skip_to_next_line(t, p))
    ELSE p

has_valid_range(t, p) ==
    LET temp == FirstNotIn(t, p.cursor + 2, {"WHITESPACE"})
    IN /\ temp <= Len(t)
       /\ kindAt(t, temp) \in {"MINUS", "PLUS"}
       /\ temp + 1 <= Len(t)
       /\ kindAt(t, temp + 1) = "NUMBER"

parse_hunk(t, p) ==
    LET cp == checkpoint(p)
    IN IF ~has_valid_range(t, p)
       THEN invalid_hunk_loop(t, skip_to_next_line(t, p))
       ELSE LET p1 == start_node_at(p, cp, "HUNK")
                p2 == parse_hunk_header(t, p1)
                p3 == hunk_lines_loop(t, p2)
            IN finish_node(p3)

RECURSIVE hunks_loop(_, _)
hunks_loop(t, p) ==
    IF at(t, p, "AT") /\ peek_text(t, p, 0) = SomeText(Pat2At)
    THEN hunks_loop(t, parse_hunk(t, p))
    ELSE p

parse_patch_file(t, p) ==
    LET p1 == start_node(p, "PATCH_FILE")
        p2 == IF at(t, p1, "MINUS") /\ peek_text(t, p1, 0) = SomeText(Pat3Minus)
              THEN parse_old_file(t, p1) ELSE p1
        p3 == IF at(t, p2, "PLUS") /\ peek_text(t, p2, 0) = SomeText(Pat3Plus)
              THEN parse_new_file(t, p2) ELSE p2
        p4 == hunks_loop(t, p3)
    IN finish_node(p4)

\* ---- context diffs ----

looks_like_context_hunk_separator(t, p) ==
    LET j == FirstNotIn(t, p.cursor, {"STAR"})
    IN (j - p.cursor) >= 7 /\ kindAt(t, j) \in {"NEWLINE", "NONE"}

\* the shape "<marker x3> ws* NUMBER (NUMBER|COMMA)* ws* trailer{3,}"
range_line_shape(t, p, trailer) ==
    LET o1 == FirstNotIn(t, p.cursor + 3, {"WHITESPACE"})
        o2 == FirstNotIn(t, o1, {"NUMBER", "COMMA"})
        o3 == FirstNotIn(t, o2, {"WHITESPACE"})
        o4 == FirstNotIn(t, o3, {trailer})
    IN kindAt(t, o1) = "NUMBER" /\ (o4 - o3) >= 3

looks_like_context_hunk_range(t, p) ==
    /\ at(t, p, "STAR")
    /\ peek_text(t, p, 0) = SomeText(Pat3Star)
    /\ range_line_shape(t, p, "STAR")

looks_like_context_new_section(t, p) ==
    /\ at(t, p, "MINUS")
    /\ peek_text(t, p, 0) = SomeText(Pat3Minus)
    /\ range_line_shape(t, p, "MINUS")

is_context_section_end(t, p) ==
    \/ (at(t, p, "MINUS") /\ peek_text(t, p, 0) = SomeText(Pat3Minus))
    \/ (at(t, p, "STAR")
          /\ (peek_text(t, p, 0) = SomeText(Pat3Star)
                \/ looks_like_context_hunk_separator(t, p)))

parse_context_line(t, p) ==
    LET cp == checkpoint(p)
        k == current_kind(t, p)
        p1 == CASE k = "SPACE" -> advance(t, start_node_at(p, cp, "CONTEXT_LINE"))
                [] k = "EXCLAMATION" -> advance(t, start_node_at(p, cp, "CONTEXT_CHANGE_LINE"))
                [] k = "PLUS" -> advance(t, start_node_at(p, cp, "ADD_LINE"))
                [] k = "MINUS" -> advance(t, start_node_at(p, cp, "DELETE_LINE"))
                [] OTHER -> start_node_at(p, cp, "CONTEXT_LINE")
        p2 == skip_to_eol(t, p1)
    IN finish_node(p2)

RECURSIVE context_lines_loop(_, _)
context_lines_loop(t, p) ==
    IF ~at_end(t, p) /\ ~is_context_section_end(t, p)
    THEN context_lines_loop(t, parse_context_line(t, p))
    ELSE p

parse_context_section(t, p, kind) ==
    LET p1 == advance(t, advance(t, advance(t, start_node(p, kind))))
        p2 == skip_whitespace(t, p1)
        p3 == parse_hunk_range(t, p2)
        p4 == skip_to_eol(t, p3)
        p5 == context_lines_loop(t, p4)
    IN finish_node(p5)

parse_context_old_section(t, p) == parse_context_section(t, p, "CONTEXT_OLD_SECTION")
parse_context_new_section(t, p) == parse_context_section(t, p, "CONTEXT_NEW_SECTION")

parse_context_sections(t, p) ==
    LET p1 == IF at(t, p, "STAR") /\ peek_text(t, p, 0) = SomeText(Pat3Star)
              THEN parse_context_old_section(t, p) ELSE p
        p2 == IF at(t, p1, "MINUS") /\ peek_text(t, p1, 0) = SomeText(Pat3Minus)
              THEN parse_context_new_section(t, p1) ELSE p1
    IN p2

parse_context_hunk(t, p) ==
    LET p1 == start_node(start_node(p, "CONTEXT_HUNK"), "CONTEXT_HUNK_HEADER")
        p2 == AdvanceTo(t, p1, FirstNotIn(t, p1.cursor, {"STAR"}))
        p3 == finish_node(skip_to_eol(t, p2))
    IN finish_node(parse_context_sections(t, p3))

parse_context_hunk_without_separator(t, p) ==
    finish_node(parse_context_sections(t, start_node(p, "CONTEXT_HUNK")))

RECURSIVE context_hunks_loop(_, _)
context_hunks_loop(t, p) ==
    IF at(t, p, "STAR") /\ looks_like_context_hunk_separator(t, p)
    THEN context_hunks_loop(t, parse_context_hunk(t, p))
    ELSE p

parse_context_file_header(t, p, kind) ==
    LET p1 == advance(t, advance(t, advance(t, start_node(p, kind))))
        p2 == skip_whitespace(t, p1)
        p3 == collect_path(t, p2, ContextPathKinds)
        p4 == skip_to_eol(t, p3)
    IN finish_node(p4)

parse_context_old_file(t, p) == parse_context_file_header(t, p, "CONTEXT_OLD_FILE")
parse_context_new_file(t, p) == parse_context_file_header(t, p, "CONTEXT_NEW_FILE")

parse_context_diff_file(t, p) ==
    LET p1 == start_node(p, "CONTEXT_DIFF_FILE")
        p2 == IF at(t, p1, "STAR") /\ peek_text(t, p1, 0) = SomeText(Pat3Star)
              THEN parse_context_old_file(t, p1) ELSE p1
        p3 == IF at(t, p2, "MINUS") /\ peek_text(t, p2, 0) = SomeText(Pat3Minus)
              THEN parse_context_new_file(t, p2) ELSE p2
        p4 == context_hunks_loop(t, p3)
    IN finish_node(p4)

\* ---- ed scripts ----

EdLetterKinds == {"LETTER_A", "LETTER_C", "LETTER_D"}

looks_like_ed_command(t, p) ==
    /\ peek_kind(t, p, 0) = "NUMBER"
    /\ kindAt(t, FirstNotIn(t, p.cursor, {"NUMBER", "COMMA"})) \in EdLetterKinds

looks_like_normal_diff(t, p) ==
    LET j == FirstNotIn(t, p.cursor, {"NUMBER", "COMMA"})
    IN /\ peek_kind(t, p, 0) = "NUMBER"
       /\ kindAt(t, j) \in EdLetterKinds
       /\ kindAt(t, j + 1) = "NUMBER"

RECURSIVE parse_ed_content_lines(_, _)
parse_ed_content_lines(t, p) ==
    IF at_end(t, p) THEN p
    ELSE IF at(t, p, "DOT") /\ peek_kind(t, p, 1) = "NEWLINE"
    THEN advance(t, advance(t, p))
    ELSE parse_ed_content_lines(t,
             finish_node(skip_to_eol(t, start_node(p, "ED_CONTENT_LINE"))))

parse_ed_command(t, p) ==
    LET p0 == start_node(p, "ED_COMMAND")
        cp == checkpoint(p0)
        p1 == AdvanceTo(t, p0, FirstNotIn(t, p0.cursor, {"NUMBER", "COMMA"}))
        cmd == current_kind(t, p1)
        p2 == CASE cmd = "LETTER_A" ->
                     finish_node(parse_ed_content_lines(t,
                         skip_to_eol(t, advance(t, start_node_at(p1, cp, "ED_ADD_COMMAND")))))
                [] cmd = "LETTER_D" ->
                     finish_node(
                         skip_to_eol(t, advance(t, start_node_at(p1, cp, "ED_DELETE_COMMAND"))))
                [] cmd = "LETTER_C" ->
                     finish_node(parse_ed_content_lines(t,
                         skip_to_eol(t, advance(t, start_node_at(p1, cp, "ED_CHANGE_COMMAND")))))
                [] OTHER -> skip_to_eol(t, p1)
    IN finish_node(p2)

\* ---- normal diffs ----

RECURSIVE normal_lines_loop(_, _, _, _)
normal_lines_loop(t, p, marker, kind) ==
    IF at(t, p, marker)
    THEN LET p1 == advance(t, start_node(p, kind))
             p2 == skip_whitespace(t, p1)
             p3 == skip_to_eol(t, p2)
         IN normal_lines_loop(t, finish_node(p3), marker, kind)
    ELSE p

parse_normal_old_lines(t, p) ==
    finish_node(normal_lines_loop(t, start_node(p, "NORMAL_OLD_LINES"),
                                  "LESS_THAN", "DELETE_LINE"))

parse_normal_new_lines(t, p) ==
    finish_node(normal_lines_loop(t, start_node(p, "NORMAL_NEW_LINES"),
                                  "GREATER_THAN", "ADD_LINE"))

parse_normal_separator(t, p) ==
    LET p1 == advance(t, advance(t, advance(t, start_node(p, "NORMAL_SEPARATOR"))))
    IN finish_node(skip_to_eol(t, p1))

parse_normal_hunk(t, p) ==
    LET p0 == start_node(start_node(p, "NORMAL_HUNK"), "NORMAL_CHANGE_COMMAND")
        p1 == AdvanceTo(t, p0, FirstNotIn(t, p0.cursor, {"NUMBER", "COMMA"}))
        p2 == IF current_kind(t, p1) \in EdLetterKinds THEN advance(t, p1) ELSE p1
        p3 == AdvanceTo(t, p2, FirstNotIn(t, p2.cursor, {"NUMBER", "COMMA"}))
        p4 == finish_node(skip_to_eol(t, p3))
        p5 == IF at(t, p4, "LESS_THAN") THEN parse_normal_old_lines(t, p4) ELSE p4
        p6 == IF at(t, p5, "MINUS") /\ peek_text(t, p5, 0) = SomeText(Pat3Minus)
              THEN parse_normal_separator(t, p5) ELSE p5
        p7 == IF at(t, p6, "GREATER_THAN") THEN parse_normal_new_lines(t, p6) ELSE p6
    IN finish_node(p7)

\* ---- top-level dispatch of Parser::parse_patch ----

starts_with_gt(x) == x.some /\ Len(x.text) >= 1 /\ x.text[1] = ">"

Dispatch(t, p) ==
    IF at(t, p, "STAR") /\ peek_text(t, p, 0) = SomeText(Pat3Star)
    THEN (IF looks_like_context_hunk_range(t, p) THEN "context_hunk" ELSE "context_file")
    ELSE IF /\ at(t, p, "MINUS")
            /\ peek_text(t, p, 0) = SomeText(Pat3Minus)
            /\ ~starts_with_gt(peek_text(t, p, 3))
            /\ ~looks_like_context_new_section(t, p)
    THEN "unified"
    ELSE IF at(t, p, "PLUS") /\ peek_text(t, p, 0) = SomeText(Pat3Plus)
    THEN "orphan_new"
    ELSE IF looks_like_normal_diff(t, p) THEN "normal"
    ELSE IF looks_like_ed_command(t, p) THEN "ed"
    ELSE "skip"

----------------------------------------------------------------------------
(* Inputs of the lossless parser: concatenations of at most MaxLines       *)
(* fragments, well-formed and malformed lines of all four dialects and     *)
(* truncated pieces.                                                       *)

MaxLines == 2

NL == <<"\n">>
SP == <<" ">>

FOldHeader == Pat3Minus \o SP \o <<"a", "/", "b", ".", "c">> \o NL
FNewHeader == Pat3Plus \o SP \o <<"b", "\t", "1">> \o NL
FHunkHeader ==
    Pat2At \o SP \o <<"-", "1", ",", "2", " ", "+", "1">> \o SP \o Pat2At \o SP \o <<"f">> \o NL
FBadHunkHeader == Pat2At \o SP \o <<"x">> \o SP \o Pat2At \o NL
FContextLine == SP \o <<"x">> \o NL
FDeleteLine == <<"-", "x">> \o NL
FAddLine == <<"+", "y">> \o NL
FContextOldRange == Pat3Star \o SP \o <<"1", ",", "2">> \o SP \o Pat3Star \o <<"*">> \o NL
FContextNewRange == Pat3Minus \o SP \o <<"1">> \o SP \o Pat3Minus \o <<"-">> \o NL
FContextOldHeader == Pat3Star \o SP \o <<"a">> \o NL
FContextSeparator == Pat3Star \o Pat3Star \o <<"*">> \o NL
FChangeLine == <<"!", " ", "x">> \o NL
FEdAdd == <<"1", "a">> \o NL
FNormalChange == <<"2", "c", "3">> \o NL
FDot == <<".">> \o NL
FOldLine == <<"<", " ", "x">> \o NL
FNewLine == <<">", " ", "y">> \o NL
FSeparator == Pat3Minus \o NL
FLoneMinus == <<"-">>
FBareCR == <<"!", "x", "\r">>
FLoneAt == Pat2At

Fragments ==
    { FOldHeader, FNewHeader, FHunkHeader, FBadHunkHeader, FContextLine,
      FDeleteLine, FAddLine, FContextOldRange, FContextNewRange,
      FContextOldHeader, FContextSeparator, FEdAdd, FNormalChange, FDot,
      FOldLine, FNewLine, FSeparator, FLoneMinus, FBareCR, FLoneAt }

\* longer documents: a well-formed unified diff, a unified diff with a
\* malformed hunk header between two valid hunks followed by a second file,
\* and a document mixing context, ed and normal diffs that ends truncated
ScenarioUnified ==
    Concat(<<FOldHeader, FNewHeader, FHunkHeader, FContextLine, FDeleteLine,
             FAddLine, FContextLine>>)
ScenarioRecovery ==
    Concat(<<FOldHeader, FNewHeader, FHunkHeader, FDeleteLine, FBadHunkHeader,
             FContextLine, FHunkHeader, FAddLine, FOldHeader, FNewHeader,
             FHunkHeader, FAddLine>>)
ScenarioMixed ==
    Concat(<<FContextOldHeader, FOldHeader, FContextSeparator, FContextOldRange,
             FChangeLine, FContextNewRange, FChangeLine, FEdAdd, FContextLine,
             FDot, FNormalChange, FOldLine, FSeparator, FNewLine,
             FOldHeader, FLoneAt>>)

Scenarios == {ScenarioUnified, ScenarioRecovery, ScenarioMixed}

\* unified files made of at most MaxBlocks blocks, each a valid hunk or a
\* malformed @@ header with the lines that follow it, alone or followed by a
\* second, well-formed file; the last line may lack its newline
MaxBlocks == 3

FBadRange == Pat2At \o SP \o <<"-", "x", " ", "+", "1">> \o SP \o Pat2At \o NL
FBareAt == Pat2At \o NL
BadHeaders == {FBadHunkHeader, FBadRange, FBareAt}
RecoveryBlocks ==
    { FHunkHeader \o FDeleteLine, FHunkHeader \o FContextLine \o FAddLine,
      FBadHunkHeader, FBadRange \o FContextLine, FBareAt \o FDot \o FDeleteLine }
RecoveryTails == {<<>>, FLoneAt, FOldHeader \o FNewHeader \o FHunkHeader \o FAddLine}
RecoveryDocs ==
    {ScenarioRecovery} \cup
    UNION { {FOldHeader \o FNewHeader \o Concat(bs) \o tl :
                bs \in [1..n -> RecoveryBlocks], tl \in RecoveryTails} : n \in 0..MaxBlocks }

\* well-formed unified diffs of one file and one hunk of at most MaxBodyLines
\* body lines, among them a removed line whose text is "--x" and an added
\* line whose text is "++y"; the header's counts are those of the body
MaxBodyLines == 3

FDeleteDashes == <<"-", "-", "-", "x">> \o NL
FAddPluses == <<"+", "+", "+", "y">> \o NL
HunkBodyLines == {FContextLine, FDeleteLine, FAddLine, FDeleteDashes, FAddPluses}
HunkBodies == UNION {[1..n -> HunkBodyLines] : n \in 1..MaxBodyLines}
CountText(n) == <<<<"0">>, <<"1">>, <<"2">>, <<"3">>, <<"4">>, <<"5">>>>[n + 1]
CountStarting(b, chars) == Cardinality({i \in 1..Len(b) : b[i][1] \in chars})
HunkHeaderFor(b) ==
    Pat2At \o SP \o <<"-", "1", ",">> \o CountText(CountStarting(b, {" ", "-"}))
        \o SP \o <<"+", "1", ",">> \o CountText(CountStarting(b, {" ", "+"}))
        \o SP \o Pat2At \o NL
HunkDoc(b) == FOldHeader \o FNewHeader \o HunkHeaderFor(b) \o Concat(b)
HunkDocs == {HunkDoc(b) : b \in HunkBodies}

\* the two header lines of a unified diff for a path, with and without a
\* time stamp after a tab, followed by at most MaxHeaderHunks hunks
MaxHeaderHunks == 1

Paths ==
    { <<"a", "/", "b", ".", "c">>, <<"s", "r", "c", "/", "m", ":", "1">>,
      <<"a", "-", "b">>, <<"a", "+", "b">>, <<"a", "@", "b">>, <<"a", ",", "b">>,
      <<"v", "1", "a">>, <<"2", "c", ".", "x">>, <<"r", "3", "d", "/", "f">>,
      <<"a", "*", "b">>, <<"a", "!">>, <<"-", "f">> }
Stamps == {<<>>, <<"\t", "1">>, <<"\t", "2", "0", "-", "1">>}
HeaderDoc(P, old_stamp, new_stamp, n) ==
    Pat3Minus \o SP \o P \o old_stamp \o NL \o Pat3Plus \o SP \o P \o new_stamp \o NL
        \o Concat([i \in 1..n |-> FHunkHeader \o FContextLine \o FDeleteLine])
HeaderDocs ==
    {HeaderDoc(P, o, m, n) : P \in Paths, o \in Stamps, m \in Stamps,
                             n \in 0..MaxHeaderHunks}

----------------------------------------------------------------------------
(* The parse as a state machine: Parser::new collects the lexer's tokens,  *)
(* Parser::parse opens ROOT, each step of parse_patch's loop handles one   *)
(* block, and the end of the tokens closes ROOT.                           *)

Inputs ==
    Scenarios \cup RecoveryDocs \cup HunkDocs \cup HeaderDocs \cup UNION { {Concat(fs) : fs \in [1..n -> Fragments]} : n \in 0..MaxLines }

\* Lexer::new(input) and an empty token vector
LInit ==
    /\ lpc = "lexing"
    /\ input \in Inputs
    /\ lexcursor = 1
    /\ start_of_line = TRUE
    /\ tokens = <<>>
    /\ cursor = 1
    /\ builder = <<>>
    /\ errors = <<>>
    /\ UIdle /\ SIdle /\ QIdle /\ HIdle /\ EIdle

PState == [cursor |-> cursor, out |-> builder]

\* Lexer::next returning Some(token), collected by Parser::new
LexToken ==
    /\ lpc = "lexing"
    /\ lexcursor <= Len(input)
    /\ LET r == LexerNext(input, lexcursor, start_of_line)
       IN /\ tokens' = Append(tokens, r.tok)
          /\ lexcursor' = r.next
          /\ start_of_line' = r.sol
    /\ UNCHANGED <<lpc, input, cursor, builder, errors, not_l>>

\* Lexer::next returning None; Parser::parse then opens ROOT
StartParse ==
    /\ lpc = "lexing"
    /\ lexcursor > Len(input)
    /\ cursor' = 1
    /\ builder' = <<Open("ROOT")>>
    /\ lpc' = "parsing"
    /\ UNCHANGED <<input, lexcursor, start_of_line, tokens, errors, not_l>>

\* one iteration of the loop of parse_patch: the branch taken ...
AtBlock(branch) ==
    /\ lpc = "parsing"
    /\ ~at_end(tokens, PState)
    /\ Dispatch(tokens, PState) = branch

\* ... and the parser state it leaves
Parsed(q) ==
    /\ cursor' = q.cursor
    /\ builder' = q.out

ParseContextHunk ==
    /\ AtBlock("context_hunk")
    /\ Parsed(finish_node(parse_context_hunk_without_separator(tokens,
                  start_node(PState, "CONTEXT_DIFF_FILE"))))
    /\ UNCHANGED <<lpc, input, lexcursor, start_of_line, tokens, errors, not_l>>

ParseContextFile ==
    /\ AtBlock("context_file")
    /\ Parsed(parse_context_diff_file(tokens, PState))
    /\ UNCHANGED <<lpc, input, lexcursor, start_of_line, tokens, errors, not_l>>

ParseUnifiedFile ==
    /\ AtBlock("unified")
    /\ Parsed(parse_patch_file(tokens, PState))
    /\ UNCHANGED <<lpc, input, lexcursor, start_of_line, tokens, errors, not_l>>

ParseOrphanNewFile ==
    /\ AtBlock("orphan_new")
    /\ Parsed(parse_patch_file(tokens, PState))
    /\ UNCHANGED <<lpc, input, lexcursor, start_of_line, tokens, errors, not_l>>

ParseNormalHunk ==
    /\ AtBlock("normal")
    /\ Parsed(parse_normal_hunk(tokens, PState))
    /\ UNCHANGED <<lpc, input, lexcursor, start_of_line, tokens, errors, not_l>>

ParseEdCommand ==
    /\ AtBlock("ed")
    /\ Parsed(parse_ed_command(tokens, PState))
    /\ UNCHANGED <<lpc, input, lexcursor, start_of_line, tokens, errors, not_l>>

SkipUnknownLine ==
    /\ AtBlock("skip")
    /\ Parsed(skip_to_next_line(tokens, PState))
    /\ UNCHANGED <<lpc, input, lexcursor, start_of_line, tokens, errors, not_l>>

\* end of parse_patch: finish_node(ROOT) and builder.finish()
FinishParse ==
    /\ lpc = "parsing"
    /\ at_end(tokens, PState)
    /\ builder' = Append(builder, Close)
    /\ lpc' = "done"
    /\ UNCHANGED <<input, lexcursor, start_of_line, tokens, cursor, errors, not_l>>

LNext ==
    \/ LexToken
    \/ StartParse
    \/ ParseContextHunk
    \/ ParseContextFile
    \/ ParseUnifiedFile
    \/ ParseOrphanNewFile
    \/ ParseNormalHunk
    \/ ParseEdCommand
    \/ SkipUnknownLine
    \/ FinishParse

Spec == LInit /\ [][LNext]_vars

\* the text of a tree: every token's text in document order
TreeText(out) ==
    Concat([i \in 1..Len(out) |-> IF out[i].e = "tok" THEN out[i].text ELSE <<>>])

\* number of nodes open after the first i events
Depth(out, i) ==
    Cardinality({j \in 1..i : out[j].e = "open"})
        - Cardinality({j \in 1..i : out[j].e = "close"})

\* the events form one complete tree: opens and closes nest and balance
WellNested(out) ==
    /\ out # <<>>
    /\ Depth(out, Len(out)) = 0
    /\ \A i \in 1..(Len(out) - 1) : Depth(out, i) >= 1

\* C1: when the parse is finished, the tree is one complete tree whose
\* token texts, concatenated in document order, are exactly the input
C1_RoundTrip ==
    lpc = "done" => (WellNested(builder) /\ TreeText(builder) = input)

\* a finished parse of a document with a file header whose path was joined
\* from several tokens, several hunks (one of them with a malformed header)
\* and two file patches
C1_Witness ==
    /\ lpc = "done"
    /\ \E i \in 1..Len(builder) :
          builder[i].e = "tok" /\ builder[i].kind = "PATH" /\ Len(builder[i].text) > 1
    /\ \E i \in 1..Len(builder) : builder[i] = Open("DELETE_LINE")
    /\ Cardinality({i \in 1..Len(builder) : builder[i] = Open("HUNK")}) >= 3
    /\ Cardinality({i \in 1..Len(builder) : builder[i] = Open("PATCH_FILE")}) >= 2

\* the Parse<Patch> that Parser::parse returns
ParseResult == [green |-> builder, errors |-> errors]

\* Parse::ok: there are no diagnostics
ok(p) == p.errors = <<>>

\* the tree has an ERROR node or token
HasError(out) == \E i \in 1..Len(out) : out[i].kind = "ERROR"

\* documents with a malformed @@ header between two valid hunks of a file
RecoveryInputs == {ScenarioRecovery}

\* C12 (as stated): a finished parse of a document with a malformed @@ header
\* between two valid hunks reports the problem, by ok() being false or by an
\* ERROR node in the tree; and ok() is true only with zero diagnostics
C12_MalformedHeaderReported ==
    lpc = "done" =>
        /\ input \in RecoveryInputs => (~ok(ParseResult) \/ HasError(builder))
        /\ ok(ParseResult) => Len(errors) = 0

----------------------------------------------------------------------------
(* unified.rs: the semantic model of unified diffs.  Option values are     *)
(* sequences of length 0 or 1.                                             *)

None == <<>>
Some(v) == <<v>>

DigitSeq == <<"0", "1", "2", "3", "4", "5", "6", "7", "8", "9">>
DigitVal(c) == CHOOSE d \in 0..9 : DigitSeq[d + 1] = c

\* format!("{}", n) for an unsigned integer
RECURSIVE ToDecimal(_)
ToDecimal(n) ==
    IF n < 10 THEN <<DigitSeq[n + 1]>>
    ELSE ToDecimal(n \div 10) \o <<DigitSeq[(n % 10) + 1]>>

RECURSIVE DecimalValue(_)
DecimalValue(ds) ==
    IF ds = <<>> THEN 0
    ELSE 10 * DecimalValue(SubSeq(ds, 1, Len(ds) - 1)) + DigitVal(ds[Len(ds)])

\* str::parse::<usize>: an optional "+" and at least one digit
parse_usize(str) ==
    LET ds == IF str # <<>> /\ str[1] = "+" THEN Tail(str) ELSE str
    IN IF ds # <<>> /\ \A i \in 1..Len(ds) : ds[i] \in Digits
       THEN Some(DecimalValue(ds))
       ELSE None

\* slice::split on one byte
RECURSIVE Split(_, _)
Split(str, c) ==
    LET is == {i \in 1..Len(str) : str[i] = c}
    IN IF is = {} THEN <<str>>
       ELSE <<SubSeq(str, 1, Min(is) - 1)>> \o Split(SubSeq(str, Min(is) + 1, Len(str)), c)

RECURSIVE splitlines_from(_, _)
splitlines_from(data, start) ==
    IF start > Len(data) THEN <<>>
    ELSE LET ends == {e \in start..Len(data) : data[e] = "\n"}
             end == IF ends = {} THEN Len(data) ELSE Min(ends)
         IN <<SubSeq(data, start, end)>> \o splitlines_from(data, end + 1)

splitlines(data) == splitlines_from(data, 1)

NO_NL ==
    <<"\\", " ", "N", "o", " ", "n", "e", "w", "l", "i", "n", "e", " ", "a", "t",
      " ", "e", "n", "d", " ", "o", "f", " ", "f", "i", "l", "e", "\n">>

\* one call of the iterator returned by iter_lines_handle_nl; its state is
\* the wrapped iterator (rest) and last_line
RECURSIVE handle_nl_next(_)
handle_nl_next(st) ==
    IF st.rest = <<>>
    THEN [panic |-> FALSE, item |-> st.last, st |-> [st EXCEPT !.last = None]]
    ELSE LET line == Head(st.rest)
             rest == Tail(st.rest)
         IN IF line = NO_NL
            THEN IF st.last = None \/ ~EndsWith(st.last[1], NL)
                 THEN [panic |-> TRUE, item |-> None, st |-> st]
                 ELSE handle_nl_next(
                        [rest |-> rest,
                         last |-> Some(SubSeq(st.last[1], 1, Len(st.last[1]) - 1))])
            ELSE IF st.last # None
                 THEN [panic |-> FALSE, item |-> st.last,
                       st |-> [rest |-> rest, last |-> Some(line)]]
                 ELSE handle_nl_next([rest |-> rest, last |-> Some(line)])

iter_lines_handle_nl(lines) == [rest |-> lines, last |-> None]

BinaryPrefix == <<"B", "i", "n", "a", "r", "y", " ", "f", "i", "l", "e", "s", " ">>
BinaryAnd == <<" ", "a", "n", "d", " ">>
BinaryDiffer == <<" ", "d", "i", "f", "f", "e", "r">>

HasAt(str, i, pat) == i >= 1 /\ i + Len(pat) - 1 <= Len(str) /\ SubSeq(str, i, i + Len(pat) - 1) = pat

\* BINARY_FILES_RE.captures: ^Binary files (.+) and (.+) differ, greedy,
\* "." matching every byte but "\n"
binary_files_captures(line) ==
    LET nl == {i \in 1..Len(line) : line[i] = "\n"}
        lim == IF nl = {} THEN Len(line) ELSE Min(nl) - 1
        b == Len(BinaryPrefix) + 1
        ms == {m \in (1..lim) \X (1..lim) :
                 /\ m[1] > b
                 /\ HasAt(line, m[1], BinaryAnd)
                 /\ m[2] > m[1] + Len(BinaryAnd)
                 /\ HasAt(line, m[2], BinaryDiffer)
                 /\ m[2] + Len(BinaryDiffer) - 1 <= lim}
    IN IF ~StartsWith(line, BinaryPrefix) \/ ms = {} THEN None
       ELSE LET a == Max({m[1] : m \in ms})
                d == Max({m[2] : m \in {x \in ms : x[1] = a}})
            IN Some(<<SubSeq(line, b, a - 1), SubSeq(line, a + Len(BinaryAnd), d - 1)>>)

strip_prefix(str, pre) ==
    IF StartsWith(str, pre) THEN Some(SubSeq(str, Len(pre) + 1, Len(str))) ELSE None
strip_suffix(str, suf) ==
    IF EndsWith(str, suf) THEN Some(SubSeq(str, 1, Len(str) - Len(suf))) ELSE None

\* a value of enum Error: the variant and its two fields
Error(variant, a, b) == [variant |-> variant, a |-> a, b |-> b]
Failed(e) == [kind |-> "err", err |-> e]
Panicked == [kind |-> "panic"]

\* the "--- " line of get_patch_names
orig_name_of(line) ==
    LET p1 == strip_prefix(line, Pat3Minus \o SP)
    IN IF p1 = None THEN Failed(Error("MalformedPatchHeader", "No orig name", line))
       ELSE LET s1 == strip_suffix(p1[1], NL)
            IN IF s1 = None THEN Failed(Error("PatchSyntax", "missing newline", line))
               ELSE LET parts == Split(s1[1], "\t")
                    IN IF Len(parts) = 2
                       THEN [kind |-> "ok", name |-> parts[1], ts |-> Some(parts[2])]
                       ELSE IF Len(parts) = 1
                       THEN [kind |-> "ok", name |-> parts[1], ts |-> None]
                       ELSE Failed(Error("MalformedPatchHeader", "No orig line", line))

\* the "+++ " line of get_patch_names
mod_name_of(line) ==
    LET p1 == strip_prefix(line, Pat3Plus \o SP)
    IN IF p1 = None THEN Failed(Error("MalformedPatchHeader", "No mod line", line))
       ELSE LET s1 == strip_suffix(p1[1], NL)
            IN IF s1 = None THEN Failed(Error("PatchSyntax", "missing newline", p1[1]))
               ELSE LET parts == Split(s1[1], "\t")
                    IN IF Len(parts) = 2
                       THEN [kind |-> "ok", name |-> parts[1], ts |-> Some(parts[2])]
                       ELSE IF Len(parts) = 1
                       THEN [kind |-> "ok", name |-> parts[1], ts |-> None]
                       ELSE Failed(Error("PatchSyntax", "Invalid mod name", p1[1]))

get_patch_names(st) ==
    LET r1 == handle_nl_next(st)
    IN IF r1.panic THEN Panicked
       ELSE IF r1.item = None THEN Failed(Error("PatchSyntax", "No input", <<>>))
       ELSE LET bin == binary_files_captures(r1.item[1])
                o == orig_name_of(r1.item[1])
                r2 == handle_nl_next(r1.st)
            IN IF bin # None THEN Failed(Error("BinaryFiles", bin[1][1], bin[1][2]))
               ELSE IF o.kind = "err" THEN o
               ELSE IF r2.panic THEN Panicked
               ELSE IF r2.item = None THEN Failed(Error("PatchSyntax", "No input", <<>>))
               ELSE LET m == mod_name_of(r2.item[1])
                    IN IF m.kind = "err" THEN m
                       ELSE [kind |-> "ok", st |-> r2.st,
                             orig_name |-> o.name, orig_ts |-> o.ts,
                             mod_name |-> m.name, mod_ts |-> m.ts]

\* parse_range: "pos" or "pos,range" (anything after a second comma is ignored)
parse_range_no_default(textrange) ==
    LET tmp == Split(textrange, ",")
        pos == parse_usize(tmp[1])
        range == IF Len(tmp) = 1 THEN Some(0) ELSE parse_usize(tmp[2])
    IN IF pos = None \/ range = None THEN None ELSE Some(<<pos[1], range[1]>>)

parse_range(textrange) ==
    LET tmp == Split(textrange, ",")
        pos == parse_usize(tmp[1])
        range == IF Len(tmp) = 1 THEN Some(1) ELSE parse_usize(tmp[2])
    IN IF pos = None \/ range = None THEN None ELSE Some(<<pos[1], range[1]>>)

\* A byte that occurs in no UTF-8 text, and the three bytes of U+FFFD, which
\* stand for themselves only as this triple
InvalidByte == "xFF"
ReplacementChar == <<"xEF", "xBF", "xBD">>
Utf8Valid(bytes) == \A i \in 1..Len(bytes) : bytes[i] # InvalidByte

\* String::from_utf8_lossy, read back as bytes
from_utf8_lossy(bytes) ==
    Concat([i \in 1..Len(bytes) |->
              IF bytes[i] = InvalidByte THEN ReplacementChar ELSE <<bytes[i]>>])

\* the end of the header regex after " @@" (position after): either "\n",
\* or " ", the tail and the first "\n"; "." matches UTF-8 text only
header_tail_at(line, ranges, after, nls) ==
    IF after <= Len(line) /\ line[after] = " " /\ nls # {}
       /\ Utf8Valid(SubSeq(line, after + 1, Min(nls) - 1))
    THEN Some([ranges |-> ranges, tail |-> Some(SubSeq(line, after + 1, Min(nls) - 1))])
    ELSE IF after <= Len(line) /\ line[after] = "\n"
    THEN Some([ranges |-> ranges, tail |-> None])
    ELSE None

\* [^@]* ends before the first "@" (position k), which must begin " @@"
header_ranges_at(line, i, k) ==
    IF k - 1 >= i + 3 /\ HasAt(line, k - 1, SP \o Pat2At)
       /\ Utf8Valid(SubSeq(line, i + 3, k - 2))
    THEN header_tail_at(line, SubSeq(line, i + 3, k - 2), k + 2,
                        {m \in (k + 3)..Len(line) : line[m] = "\n"})
    ELSE None

FirstAt(line, from) ==
    Min({k \in from..Len(line) : line[k] = "@"} \cup {Len(line) + 1})

\* one attempt of the header regex  \@\@ ([^@]*) \@\@( (.*))?\n  at position i
header_match_at(line, i) ==
    IF HasAt(line, i, Pat2At \o SP)
    THEN header_ranges_at(line, i, FirstAt(line, i + 3))
    ELSE None

\* Regex::captures: the leftmost match
header_captures(line) ==
    LET is == {i \in 1..Len(line) : header_match_at(line, i) # None}
    IN IF is = {} THEN None ELSE header_match_at(line, Min(is))

NewHunk(orig_pos, orig_range, mod_pos, mod_range, tail) ==
    [orig_pos |-> orig_pos, orig_range |-> orig_range, mod_pos |-> mod_pos,
     mod_range |-> mod_range, tail |-> tail, lines |-> <<>>]

MalformedHunkHeader(msg, line) == [kind |-> "err", msg |-> msg, line |-> line]

\* Hunk::from_header, from the two parsed ranges on
hunk_of_ranges(line, o, m, tail) ==
    IF o = None THEN MalformedHunkHeader("Original range is not a number.", line)
    ELSE IF m = None THEN MalformedHunkHeader("Modified range is not a number.", line)
    ELSE [kind |-> "ok", hunk |-> NewHunk(o[1][1], o[1][2], m[1][1], m[1][2], tail)]

\* Hunk::from_header, from the two range texts on; indexing an empty text
\* panics
hunk_of_texts(line, orig_text, modi_text, tail) ==
    IF orig_text = <<>> THEN Panicked
    ELSE IF orig_text[1] # "-"
    THEN MalformedHunkHeader("Positions don't start with + or -.", line)
    ELSE IF modi_text = <<>> THEN Panicked
    ELSE IF modi_text[1] # "+"
    THEN MalformedHunkHeader("Positions don't start with + or -.", line)
    ELSE hunk_of_ranges(line, parse_range(Tail(orig_text)),
                        parse_range(Tail(modi_text)), tail)

\* Hunk::from_header, from the split of the first capture on
hunk_of_parts(line, parts, tail) ==
    IF Len(parts) # 2 THEN MalformedHunkHeader("Does not match format.", line)
    ELSE hunk_of_texts(line, parts[1], parts[2], tail)

hunk_of_captures(line, captures) ==
    IF captures = None THEN MalformedHunkHeader("Does not match format.", line)
    ELSE hunk_of_parts(line, Split(captures[1].ranges, " "), captures[1].tail)

\* Hunk::from_header
from_header(line) == hunk_of_captures(line, header_captures(line))

ContextLine(bytes) == [kind |-> "Context", bytes |-> bytes]
InsertLine(bytes) == [kind |-> "Insert", bytes |-> bytes]
RemoveLine(bytes) == [kind |-> "Remove", bytes |-> bytes]

\* HunkLine::parse_line: None stands for Err(MalformedLine)
parse_line(line) ==
    IF StartsWith(line, NL) THEN Some(ContextLine(line))
    ELSE IF StartsWith(line, SP) THEN Some(ContextLine(Tail(line)))
    ELSE IF StartsWith(line, <<"+">>) THEN Some(InsertLine(Tail(line)))
    ELSE IF StartsWith(line, <<"-">>) THEN Some(RemoveLine(Tail(line)))
    ELSE None

\* HunkLine::as_bytes
hunk_line_as_bytes(l) ==
    (CASE l.kind = "Context" -> SP [] l.kind = "Insert" -> <<"+">> [] OTHER -> <<"-">>)
        \o l.bytes \o (IF EndsWith(l.bytes, NL) THEN <<>> ELSE NL \o NO_NL)

\* Hunk::range_str
range_str_with_count(pos, range) == ToDecimal(pos) \o <<",">> \o ToDecimal(range)

range_str(pos, range) ==
    IF range = 1 THEN ToDecimal(pos) ELSE ToDecimal(pos) \o <<",">> \o ToDecimal(range)

\* Hunk::get_header
get_header(h) ==
    Pat2At \o <<" ", "-">> \o range_str(h.orig_pos, h.orig_range)
        \o <<" ", "+">> \o range_str(h.mod_pos, h.mod_range) \o SP \o Pat2At
        \o from_utf8_lossy(IF h.tail = None THEN <<>> ELSE SP \o h.tail[1]) \o NL

\* Hunk::write into an empty vector, that is Hunk::as_bytes
hunk_as_bytes(h) ==
    get_header(h) \o Concat([i \in 1..Len(h.lines) |-> hunk_line_as_bytes(h.lines[i])])

\* usize::MAX is 2^64 - 1.  The values that wrap around to it are only
\* compared and decremented, so the largest integer of the model stands for it.
UsizeMax == 2147483647

\* usize subtraction of 1 in a build without overflow checks
WrappingDec(n) == IF n = 0 THEN UsizeMax ELSE n - 1

\* the loop of Hunk::shift_to_mod_lines from line i on
RECURSIVE shift_lines_loop(_, _, _, _, _)
shift_lines_loop(lines, i, pos, position, shift) ==
    IF i > Len(lines) THEN Some(shift)
    ELSE IF lines[i].kind = "Remove" /\ position = pos THEN None
    ELSE LET shift1 == CASE lines[i].kind = "Insert" -> shift + 1
                         [] lines[i].kind = "Remove" -> shift - 1
                         [] OTHER -> shift
             position1 == IF lines[i].kind = "Insert" THEN position ELSE position + 1
         IN IF position1 > pos THEN Some(shift1)
            ELSE shift_lines_loop(lines, i + 1, pos, position1, shift1)

shift_to_mod_lines(h, pos) ==
    shift_lines_loop(h.lines, 1, pos, WrappingDec(h.orig_pos), 0)

\* Hunk::shift_to_mod; checks: the build panics on integer overflow
shift_to_mod(h, pos, checks) ==
    IF h.orig_pos = 0 /\ checks THEN Panicked
    ELSE IF pos < WrappingDec(h.orig_pos) THEN [kind |-> "ok", shift |-> Some(0)]
    ELSE IF pos > h.orig_pos + h.orig_range
    THEN [kind |-> "ok", shift |-> Some(h.mod_range - h.orig_range)]
    ELSE [kind |-> "ok", shift |-> shift_to_mod_lines(h, pos)]

\* the inner loop of iter_hunks: the lines of one hunk
RECURSIVE read_hunk_lines(_, _, _, _)
read_hunk_lines(st, new_hunk, orig_size, mod_size) ==
    IF ~(orig_size < new_hunk.orig_range \/ mod_size < new_hunk.mod_range)
    THEN [kind |-> "hunk", hunk |-> new_hunk, st |-> st]
    ELSE LET r == handle_nl_next(st)
             hl == parse_line(r.item[1])
         IN IF r.panic THEN Panicked
            ELSE IF r.item = None THEN [kind |-> "none", st |-> r.st]
            ELSE IF hl = None
            THEN Failed(Error("PatchSyntax", "Invalid hunk line", r.item[1]))
            ELSE read_hunk_lines(
                   r.st, [new_hunk EXCEPT !.lines = Append(@, hl[1])],
                   orig_size + (IF hl[1].kind \in {"Remove", "Context"} THEN 1 ELSE 0),
                   mod_size + (IF hl[1].kind \in {"Insert", "Context"} THEN 1 ELSE 0))

\* one call of the iterator returned by iter_hunks
RECURSIVE iter_hunks_next(_)
iter_hunks_next(st) ==
    LET r == handle_nl_next(st)
        h == from_header(r.item[1])
    IN IF r.panic THEN Panicked
       ELSE IF r.item = None THEN [kind |-> "none", st |-> r.st]
       ELSE IF r.item[1] = NL THEN iter_hunks_next(r.st)
       ELSE IF h.kind = "panic" THEN Panicked
       ELSE IF h.kind = "err" THEN Failed(Error("MalformedHunkHeader", h.msg, h.line))
       ELSE read_hunk_lines(r.st, h.hunk, 0, 0)

\* parse_patch, the loop over iter_hunks: hunks are the hunks pushed so far
RECURSIVE parse_patch_hunks(_, _, _)
parse_patch_hunks(st, names, hunks) ==
    LET r == iter_hunks_next(st)
    IN IF r.kind = "hunk" THEN parse_patch_hunks(r.st, names, Append(hunks, r.hunk))
       ELSE IF r.kind = "none"
       THEN [kind |-> "plain",
             patch |-> [orig_name |-> names.orig_name, orig_ts |-> names.orig_ts,
                        mod_name |-> names.mod_name, mod_ts |-> names.mod_ts,
                        hunks |-> hunks]]
       ELSE r

\* parse_patch, from the result of get_patch_names on
parse_patch_named(names) ==
    IF names.kind = "ok" THEN parse_patch_hunks(names.st, names, <<>>)
    ELSE IF names.kind = "err" /\ names.err.variant = "BinaryFiles"
    THEN [kind |-> "binary", orig_name |-> names.err.a, mod_name |-> names.err.b]
    ELSE names

parse_patch(lines) == parse_patch_named(get_patch_names(iter_lines_handle_nl(lines)))

Reverse(seq) == [i \in 1..Len(seq) |-> seq[Len(seq) + 1 - i]]

PatchConflict(line_no, orig_line, patch_line) ==
    [line_no |-> line_no, orig_line |-> orig_line, patch_line |-> patch_line]

\* iter_exact_patched_from_hunks: the lines of the first hunk are drained
\* into hunk_lines, reversed
iter_exact_patched_from_hunks(orig_lines, hunks) ==
    [orig_lines |-> orig_lines,
     hunks |-> IF hunks # <<>> THEN [hunks EXCEPT ![1].lines = <<>>] ELSE hunks,
     hunk_lines |-> IF hunks # <<>> THEN Reverse(hunks[1].lines) ELSE <<>>,
     line_no |-> 1]

Yield(line, it) == [tag |-> "ok", line |-> line, it |-> it]
YieldErr(c, it) == [tag |-> "err", conflict |-> c, it |-> it]

\* (variant: the original line is taken without being compared)
match_orig_line_unchecked(it, bytes) ==
    IF it.orig_lines # <<>> THEN None ELSE Some(PatchConflict(it.line_no, <<>>, bytes))

\* (variant: the conflict counts original lines from zero)
match_orig_line_zero_based(it, bytes) ==
    IF it.orig_lines # <<>>
    THEN IF Head(it.orig_lines) # bytes
         THEN Some(PatchConflict(it.line_no - 1, Head(it.orig_lines), bytes))
         ELSE None
    ELSE Some(PatchConflict(it.line_no - 1, <<>>, bytes))

\* a Context or Remove line taken from hunk_lines is compared with the
\* next original line
match_orig_line(it, bytes) ==
    IF it.orig_lines # <<>>
    THEN IF Head(it.orig_lines) # bytes
         THEN Some(PatchConflict(it.line_no, Head(it.orig_lines), bytes))
         ELSE None
    ELSE Some(PatchConflict(it.line_no, <<>>, bytes))

\* PatchedIter::next
RECURSIVE patched_next(_)
patched_next(it) ==
    IF it.hunks # <<>> /\ it.line_no < it.hunks[1].orig_pos
    THEN LET it1 == [it EXCEPT !.line_no = @ + 1]
         IN IF it.orig_lines # <<>>
            THEN Yield(Head(it.orig_lines), [it1 EXCEPT !.orig_lines = Tail(@)])
            ELSE YieldErr(PatchConflict(it1.line_no, <<>>, <<>>), it1)
    ELSE IF it.hunks = <<>>
    THEN IF it.orig_lines # <<>>
         THEN Yield(Head(it.orig_lines), [it EXCEPT !.orig_lines = Tail(@)])
         ELSE [tag |-> "none", it |-> it]
    ELSE IF it.hunk_lines # <<>>
    THEN LET line == it.hunk_lines[Len(it.hunk_lines)]
             it1 == [it EXCEPT !.hunk_lines = SubSeq(@, 1, Len(@) - 1)]
             c == match_orig_line(it1, line.bytes)
             it2 == [it1 EXCEPT !.orig_lines = IF @ = <<>> THEN @ ELSE Tail(@)]
         IN IF line.kind = "Insert" THEN Yield(line.bytes, it1)
            ELSE IF c # None THEN YieldErr(c[1], it2)
            ELSE IF line.kind = "Context"
            THEN Yield(line.bytes, [it2 EXCEPT !.line_no = @ + 1])
            ELSE patched_next([it2 EXCEPT !.line_no = @ + 1])
    ELSE LET hs == Tail(it.hunks)
         IN patched_next(
              [it EXCEPT !.hunks = IF hs # <<>> THEN [hs EXCEPT ![1].lines = <<>>] ELSE hs,
                         !.hunk_lines = IF hs # <<>> THEN Reverse(hs[1].lines) ELSE @])

\* {:?} of a string: quoted, with newline, quote and backslash escaped
DebugStr(str) ==
    <<"\"">> \o Concat([i \in 1..Len(str) |->
                 CASE str[i] = "\n" -> <<"\\", "n">>
                   [] str[i] = "\t" -> <<"\\", "t">>
                   [] str[i] = "\"" -> <<"\\", "\"">>
                   [] str[i] = "\\" -> <<"\\", "\\">>
                   [] OTHER -> <<str[i]>>]) \o <<"\"">>

\* Display of PatchConflict; the fixed words of the format string are single
\* elements
conflict_to_string(c) ==
    <<"Patch conflict at orig line ">> \o ToDecimal(c.line_no)
        \o <<": orig: ">> \o DebugStr(c.orig_line)
        \o <<", patch: ">> \o DebugStr(c.patch_line)

----------------------------------------------------------------------------
(* Patches and original files the semantic model is run on: a file header  *)
(* followed by at most MaxBody lines, and fixed longer patches.            *)

MaxBody == 3
MaxOrigLines == 2

ULineX == <<"x">> \o NL
ULineY == <<"y">> \o NL
UOldName == Pat3Minus \o SP \o <<"a">> \o NL
UNewName == Pat3Plus \o SP \o <<"b", "\t", "t">> \o NL
UHeader(ranges) == Pat2At \o SP \o ranges \o SP \o Pat2At \o NL
UReplace1 == UHeader(<<"-", "1", " ", "+", "1">>)
UInsert2 == UHeader(<<"-", "2", ",", "0", " ", "+", "2">>)
UGrow1 == Pat2At \o <<" ", "-", "1", ",", "1", " ", "+", "1", ",", "2", " ">> \o Pat2At \o <<" ", "f">> \o NL
UDelete2 == UHeader(<<"-", "2", " ", "+", "1", ",", "0">>)
UInsert3 == UHeader(<<"-", "3", ",", "0", " ", "+", "3">>)
UKeep2 == UHeader(<<"-", "2", ",", "2", " ", "+", "2">>)
UReplace2 == UHeader(<<"-", "2", " ", "+", "2">>)
UGarbage == <<"?">> \o NL

BodyLines ==
    { UReplace1, UInsert2, UGrow1, UDelete2,
      SP \o ULineX, <<"-">> \o ULineX, <<"+">> \o ULineY, <<"-">> \o ULineY,
      NO_NL, NL, UGarbage }

PatchTwoHunks ==
    <<UOldName, UNewName, UReplace1, <<"-">> \o ULineX, <<"+">> \o ULineY,
      UKeep2, SP \o ULineY, <<"-">> \o ULineX>>
PatchInsertFar == <<UOldName, UNewName, UInsert3, <<"+">> \o ULineY>>
PatchUnsorted ==
    <<UOldName, UNewName, UReplace2, <<"-">> \o ULineY, <<"+">> \o ULineX,
      UReplace1, <<"-">> \o ULineX, <<"+">> \o ULineY>>
PatchNoNewline ==
    <<UOldName, UNewName, UReplace1, <<"-">> \o ULineX, NO_NL, <<"+">> \o ULineY, NO_NL>>
PatchBinary ==
    << BinaryPrefix \o <<"a">> \o BinaryAnd \o <<"b">> \o BinaryDiffer \o NL >>

\* one line inserted after line 3 and after line 1 of the original, as diff
\* writes it, and an insertion followed by a replacement further down
UInsertAfter3 == UHeader(<<"-", "3", ",", "0", " ", "+", "4">>)
UInsertAfter1 == UHeader(<<"-", "1", ",", "0", " ", "+", "2">>)
UReplace3To4 == UHeader(<<"-", "3", " ", "+", "4">>)
PatchInsertAfter3 == <<UOldName, UNewName, UInsertAfter3, <<"+">> \o ULineY>>
PatchInsertAfter1 == <<UOldName, UNewName, UInsertAfter1, <<"+">> \o ULineY>>
PatchInsertThenReplace ==
    <<UOldName, UNewName, UInsertAfter1, <<"+">> \o ULineY,
      UReplace3To4, <<"-">> \o ULineX, <<"+">> \o ULineY>>

PatchScenarios ==
    {PatchTwoHunks, PatchInsertFar, PatchUnsorted, PatchNoNewline, PatchBinary,
     PatchInsertAfter3, PatchInsertAfter1, PatchInsertThenReplace, <<UOldName>>, <<>>}

PatchInputs ==
    PatchScenarios \cup
    UNION { {<<UOldName, UNewName>> \o b : b \in [1..n -> BodyLines]} : n \in 0..MaxBody }

OrigScenarios ==
    { ULineX \o ULineY \o ULineX, ULineX \o ULineY \o ULineY, <<"x">>,
      ULineY \o <<"x">> }

Origs ==
    OrigScenarios \cup
    UNION { {Concat(ls) : ls \in [1..n -> {ULineX, ULineY}]} : n \in 0..MaxOrigLines }

----------------------------------------------------------------------------
(* parse_patch followed by apply_exact as a state machine: get_patch_names, *)
(* one step per hunk pulled from iter_hunks, then one step per call of     *)
(* PatchedIter::next.                                                      *)

Pending == [kind |-> "pending"]

UInit ==
    /\ upc = "names"
    /\ patch_lines \in PatchInputs
    /\ iter_lines = iter_lines_handle_nl(patch_lines)
    /\ patch = <<>>
    /\ parse_result = Pending
    /\ orig = <<>>
    /\ patched = <<>>
    /\ collected = <<>>
    /\ conflict = None
    /\ apply_result = Pending
    /\ LIdle /\ SIdle /\ QIdle /\ HIdle /\ EIdle

\* parse_patch: get_patch_names succeeds and UnifiedPatch::new is called
ParsePatchNames ==
    /\ upc = "names"
    /\ LET r == get_patch_names(iter_lines)
       IN /\ r.kind = "ok"
          /\ iter_lines' = r.st
          /\ patch' = [orig_name |-> r.orig_name, orig_ts |-> r.orig_ts,
                       mod_name |-> r.mod_name, mod_ts |-> r.mod_ts, hunks |-> <<>>]
    /\ upc' = "hunks"
    /\ UNCHANGED <<patch_lines, parse_result, orig, patched, collected, conflict,
                   apply_result, not_u>>

\* parse_patch: get_patch_names fails (a binary patch, an error, or a panic
\* of the line iterator)
ParsePatchNoNames ==
    /\ upc = "names"
    /\ LET r == get_patch_names(iter_lines)
       IN /\ r.kind # "ok"
          /\ parse_result' =
               IF r.kind = "err" /\ r.err.variant = "BinaryFiles"
               THEN [kind |-> "binary", orig_name |-> r.err.a, mod_name |-> r.err.b]
               ELSE r
    /\ upc' = "parsed"
    /\ UNCHANGED <<patch_lines, iter_lines, patch, orig, patched, collected, conflict,
                   apply_result, not_u>>

\* parse_patch: iter_hunks yields a hunk, which is pushed
ParsePatchHunk ==
    /\ upc = "hunks"
    /\ LET r == iter_hunks_next(iter_lines)
       IN /\ r.kind = "hunk"
          /\ iter_lines' = r.st
          /\ patch' = [patch EXCEPT !.hunks = Append(@, r.hunk)]
    /\ UNCHANGED <<upc, patch_lines, parse_result, orig, patched, collected, conflict,
                   apply_result, not_u>>

\* parse_patch: iter_hunks ends (Ok(Plain(patch))), yields an error, or panics
ParsePatchReturn ==
    /\ upc = "hunks"
    /\ LET r == iter_hunks_next(iter_lines)
       IN /\ r.kind # "hunk"
          /\ parse_result' = IF r.kind = "none" THEN [kind |-> "plain"] ELSE r
    /\ upc' = "parsed"
    /\ UNCHANGED <<patch_lines, iter_lines, patch, orig, patched, collected, conflict,
                   apply_result, not_u>>

\* PlainOrBinaryPatch::apply_exact on a binary patch
ApplyBinary ==
    /\ upc = "parsed"
    /\ parse_result.kind = "binary"
    /\ \E o \in Origs : orig' = o
    /\ apply_result' = [kind |-> "unapplyable"]
    /\ upc' = "applied"
    /\ UNCHANGED <<patch_lines, iter_lines, patch, parse_result, patched, collected,
                   conflict, not_u>>

\* UnifiedPatch::apply_exact: the original is split and the iterator built
ApplyExact ==
    /\ upc = "parsed"
    /\ parse_result.kind = "plain"
    /\ \E o \in Origs :
          /\ orig' = o
          /\ patched' = iter_exact_patched_from_hunks(splitlines(o), patch.hunks)
    /\ upc' = "applying"
    /\ UNCHANGED <<patch_lines, iter_lines, patch, parse_result, collected, conflict,
                   apply_result, not_u>>

\* collect: PatchedIter::next yields a line
PatchedLine ==
    /\ upc = "applying"
    /\ LET r == patched_next(patched)
       IN /\ r.tag = "ok"
          /\ patched' = r.it
          /\ collected' = Append(collected, r.line)
    /\ UNCHANGED <<upc, patch_lines, iter_lines, patch, parse_result, orig, conflict,
                   apply_result, not_u>>

\* collect: PatchedIter::next yields a conflict, which apply_exact turns
\* into ApplyError::Conflict
PatchedConflict ==
    /\ upc = "applying"
    /\ LET r == patched_next(patched)
       IN /\ r.tag = "err"
          /\ patched' = r.it
          /\ conflict' = Some(r.conflict)
          /\ apply_result' = [kind |-> "conflict", msg |-> conflict_to_string(r.conflict)]
    /\ upc' = "applied"
    /\ UNCHANGED <<patch_lines, iter_lines, patch, parse_result, orig, collected, not_u>>

\* collect: PatchedIter::next ends and apply_exact returns the lines joined
PatchedEnd ==
    /\ upc = "applying"
    /\ LET r == patched_next(patched)
       IN /\ r.tag = "none"
          /\ patched' = r.it
          /\ apply_result' = [kind |-> "ok", bytes |-> Concat(collected)]
    /\ upc' = "applied"
    /\ UNCHANGED <<patch_lines, iter_lines, patch, parse_result, orig, collected,
                   conflict, not_u>>

UNext ==
    \/ ParsePatchNames
    \/ ParsePatchNoNames
    \/ ParsePatchHunk
    \/ ParsePatchReturn
    \/ ApplyBinary
    \/ ApplyExact
    \/ PatchedLine
    \/ PatchedConflict
    \/ PatchedEnd

UnifiedSpec == UInit /\ [][UNext]_vars

----------------------------------------------------------------------------
(* Properties of parse_patch and apply_exact                               *)

OrigLines == splitlines(orig)
IsOrigSide(l) == l.kind \in {"Context", "Remove"}
IsModSide(l) == l.kind \in {"Context", "Insert"}
OrigSide(h) == SelectSeq(h.lines, IsOrigSide)
ModSide(h) == SelectSeq(h.lines, IsModSide)
HunkSet == {patch.hunks[i] : i \in 1..Len(patch.hunks)}

CountsMatch(h) == Len(OrigSide(h)) = h.orig_range /\ Len(ModSide(h)) = h.mod_range
SortedApart(hs) ==
    \A i \in 1..(Len(hs) - 1) :
        /\ hs[i].orig_pos < hs[i + 1].orig_pos
        /\ hs[i].orig_pos + hs[i].orig_range <= hs[i + 1].orig_pos

\* the patch came from a well-formed diff: every hunk has the lines its
\* header announces, starts at a line of the file, and the hunks are in order
WellFormedPatch ==
    /\ parse_result.kind = "plain"
    /\ \A h \in HunkSet : CountsMatch(h) /\ (h.orig_range > 0 => h.orig_pos >= 1)
    /\ SortedApart(patch.hunks)

\* every Context and Remove payload equals the original line at the hunk's
\* orig_pos plus the line's offset among the hunk's Context/Remove lines
PayloadsMatch ==
    \A h \in HunkSet : \A k \in 1..Len(OrigSide(h)) :
        /\ h.orig_pos + k - 1 \in 1..Len(OrigLines)
        /\ OrigLines[h.orig_pos + k - 1] = OrigSide(h)[k].bytes

\* the original has the lines that precede every hunk
HunksReachable == \A h \in HunkSet : Len(OrigLines) >= h.orig_pos - 1

\* C2 (as stated): for a patch parsed from a well-formed diff, apply_exact
\* succeeds exactly when every Context and Remove payload equals its
\* corresponding original line, and fails with a Conflict otherwise
C2_ApplyIffPayloadsMatch ==
    (upc = "applied" /\ WellFormedPatch) =>
        /\ (apply_result.kind = "ok") <=> PayloadsMatch
        /\ apply_result.kind \in {"ok", "conflict"}

\* C2 (amended): for a patch parsed from a well-formed diff, apply_exact
\* succeeds exactly when every Context and Remove payload equals its
\* corresponding original line and the original has at least orig_pos - 1
\* lines for every hunk; otherwise it fails with a Conflict
C2_ApplyIffMatchAndReachable ==
    (upc = "applied" /\ WellFormedPatch) =>
        /\ (apply_result.kind = "ok") <=> (PayloadsMatch /\ HunksReachable)
        /\ apply_result.kind \in {"ok", "conflict"}

\* a well-formed patch whose payloads all match, applied to an original too
\* short to reach a hunk that only inserts: a Conflict
C2_Witness ==
    /\ upc = "applied"
    /\ WellFormedPatch
    /\ patch.hunks # <<>>
    /\ PayloadsMatch
    /\ ~HunksReachable
    /\ apply_result.kind = "conflict"

\* number of original lines the iterator has taken
Consumed == Len(OrigLines) - Len(patched.orig_lines)

\* C3: a Conflict raised on an original line that was read carries that
\* line's 1-based number, the line itself and the differing Context or
\* Remove payload it was compared with, and apply_exact reports exactly
\* that conflict
C3_ConflictCarries ==
    (upc = "applied" /\ conflict # None) =>
        /\ apply_result = [kind |-> "conflict", msg |-> conflict_to_string(conflict[1])]
        /\ conflict[1].orig_line # <<>> =>
              /\ Consumed \in 1..Len(OrigLines)
              /\ conflict[1].line_no = Consumed
              /\ conflict[1].orig_line = OrigLines[Consumed]
              /\ conflict[1].patch_line # conflict[1].orig_line
              /\ \E h \in HunkSet : \E k \in 1..Len(OrigSide(h)) :
                    OrigSide(h)[k].bytes = conflict[1].patch_line

\* a conflict in the second hunk, on the third line of the original
C3_Witness ==
    /\ upc = "applied"
    /\ conflict = Some(PatchConflict(3, ULineY, ULineX))
    /\ Len(patch.hunks) = 2

\* C5 (as stated): every hunk of a successfully parsed patch has as many
\* Context+Remove lines as orig_range and Context+Insert lines as mod_range
C5_HunkCountsMatchHeader ==
    (upc \in {"parsed", "applying", "applied"} /\ parse_result.kind = "plain") =>
        \A h \in HunkSet : CountsMatch(h)

\* C6 (as stated): the hunks of a successfully parsed patch are sorted by
\* increasing orig_pos and do not overlap in the original
C6_HunksSortedApart ==
    (upc \in {"parsed", "applying", "applied"} /\ parse_result.kind = "plain") =>
        SortedApart(patch.hunks)

----------------------------------------------------------------------------
(* unified.rs: FileEntryIter, the splitter of a multi-file stream.  A      *)
(* saved line is kept as its number in the input; its bytes are the bytes  *)
(* of that input line.                                                     *)

MetaPrefix == <<"=", "=", "=", " ">>

\* FileEntryIter::entry
entry(it) ==
    IF it.saved_lines # <<>>
    THEN Some([kind |-> IF it.is_dirty THEN "Junk" ELSE "Patch", nos |-> it.saved_lines])
    ELSE None

drained(it) == [it EXCEPT !.saved_lines = <<>>]

\* One iteration of the loop of FileEntryIter::next: "continue" when the
\* loop goes on to the next line, otherwise what next returns
file_entry_step(lines, it, checks) ==
    IF it.iter > Len(lines)
    THEN IF entry(it) # None
         THEN [tag |-> "entry", entry |-> entry(it)[1], it |-> drained(it)]
         ELSE [tag |-> "none", it |-> it]
    ELSE
    LET no == it.iter
        line == lines[no]
        it1 == [it EXCEPT !.iter = @ + 1]
        saved == [it1 EXCEPT !.saved_lines = Append(@, no)]
        dec_orig == StartsWith(line, <<"-">>) \/ StartsWith(line, SP)
        dec_mod == StartsWith(line, <<"+">>) \/ StartsWith(line, SP)
        h == from_header(line)
    IN IF StartsWith(line, MetaPrefix)
       THEN [tag |-> "entry", entry |-> [kind |-> "Meta", nos |-> <<no>>], it |-> it1]
       ELSE IF StartsWith(line, Pat3Star \o SP) THEN [tag |-> "continue", it |-> it1]
       ELSE IF StartsWith(line, <<"#">>) THEN [tag |-> "continue", it |-> it1]
       ELSE IF it.orig_range > 0 \/ it.mod_range > 0
       THEN IF checks /\ ((dec_orig /\ it.orig_range = 0) \/ (dec_mod /\ it.mod_range = 0))
            THEN [tag |-> "panic", it |-> it1]
            ELSE [tag |-> "continue",
                  it |-> [saved EXCEPT
                            !.orig_range = IF ~dec_orig THEN @
                                           ELSE IF @ = 0 THEN UsizeMax ELSE @ - 1,
                            !.mod_range = IF ~dec_mod THEN @
                                          ELSE IF @ = 0 THEN UsizeMax ELSE @ - 1]]
       ELSE IF StartsWith(line, Pat3Minus \o SP) \/ binary_files_captures(line) # None
       THEN IF entry(it) # None
            THEN [tag |-> "entry", entry |-> entry(it)[1],
                  it |-> [it1 EXCEPT !.saved_lines = <<no>>, !.is_dirty = FALSE]]
            ELSE [tag |-> "continue", it |-> [saved EXCEPT !.is_dirty = FALSE]]
       ELSE IF StartsWith(line, Pat3Plus \o SP) /\ ~it.is_dirty
       THEN [tag |-> "continue", it |-> saved]
       ELSE IF StartsWith(line, Pat2At)
       THEN IF h.kind = "panic" THEN [tag |-> "panic", it |-> it1]
            ELSE IF h.kind = "err"
            THEN [tag |-> "err", err |-> Error("MalformedHunkHeader", h.msg, line),
                  it |-> it1]
            ELSE [tag |-> "continue",
                  it |-> [saved EXCEPT !.orig_range = h.hunk.orig_range,
                                       !.mod_range = h.hunk.mod_range]]
       ELSE IF ~it.is_dirty /\ entry(it) # None
            THEN [tag |-> "entry", entry |-> entry(it)[1],
                  it |-> [it1 EXCEPT !.saved_lines = <<no>>, !.is_dirty = TRUE]]
            ELSE [tag |-> "continue", it |-> [saved EXCEPT !.is_dirty = TRUE]]

iter_file_patch ==
    [iter |-> 1, saved_lines |-> <<>>, is_dirty |-> FALSE, orig_range |-> 0,
     mod_range |-> 0]

\* the closure parse_patches gives to filter_map: the items (none or one)
\* that one item of iter_file_patch becomes; a panic of parse_patch unwinds
\* through the iterator
parse_patches_item(lines, e) ==
    IF e.kind = "Patch" THEN <<parse_patch([i \in 1..Len(e.nos) |-> lines[e.nos[i]]])>>
    ELSE <<>>

----------------------------------------------------------------------------
(* The streams the splitter is run on and its state machine: one step per  *)
(* iteration of the loop of FileEntryIter::next, which the consumer calls  *)
(* until it returns None.                                                  *)

MaxStream == 3

SMeta == MetaPrefix \o <<"m">> \o NL
SStars == Pat3Star \o SP \o <<"c">> \o NL
SHash == <<"#", "c">> \o NL
SJunk == <<"j">> \o NL
SBadHeader == Pat2At \o SP \o <<"x">> \o SP \o Pat2At \o NL
\* a header without its original range, and one that declares no original line
SNoOrigRange == Pat2At \o SP \o SP \o <<"+", "5">> \o SP \o Pat2At \o NL
SInsertTwo == Pat2At \o SP \o <<"-", "1", ",", "0", " ", "+", "1", ",", "2">> \o SP \o Pat2At \o NL

StreamLines ==
    { SMeta, SStars, SHash, SJunk, SBadHeader, SNoOrigRange, SInsertTwo, UOldName,
      UNewName, UReplace1, UGrow1, SP \o ULineX, <<"-">> \o ULineX, <<"+">> \o ULineY }

StreamNoise ==
    <<SJunk, SMeta, UOldName, UNewName, UReplace1, <<"-">> \o ULineX,
      <<"+">> \o ULineY, SJunk, SJunk, UOldName, UNewName, SJunk>>
StreamTwoPatches ==
    <<SHash, UOldName, UNewName, UReplace1, <<"-">> \o ULineX, <<"+">> \o ULineY,
      PatchBinary[1], UOldName, UNewName, UGrow1, SP \o ULineX, <<"+">> \o ULineY,
      SMeta>>

\* multi-file streams: a file that is bad in one way, then a well-formed file
FileGood == <<UOldName, UNewName, UGrow1, SP \o ULineX, <<"+">> \o ULineY>>
FileBadHeader == <<UOldName, UNewName, SBadHeader, <<"-">> \o ULineX, <<"+">> \o ULineY>>
FileNoNewName == <<UOldName, UReplace1, <<"-">> \o ULineX, <<"+">> \o ULineY>>
FileBadLine == <<UOldName, UNewName, UReplace1, <<"-">> \o ULineX, UGarbage>>
FileTruncated == <<UOldName, UNewName, UReplace1, <<"-">> \o ULineX>>
BadFiles == {FileBadHeader, FileNoNewName, FileBadLine, FileTruncated}
StreamsBadThenGood == {b \o FileGood : b \in BadFiles}

\* streams of one well-formed diff for one file: one hunk, two hunks, the
\* last line of the new file without a newline, an empty line between hunks
UReplace3 == UHeader(<<"-", "3", " ", "+", "3">>)
FileReplace == <<UOldName, UNewName, UReplace1, <<"-">> \o ULineX, <<"+">> \o ULineY>>
FileTwoHunks == FileReplace \o <<UReplace3, <<"-">> \o ULineX, <<"+">> \o ULineY>>
FileNoNewlineAtEnd == FileReplace \o <<NO_NL>>
FileNoNewlineInside ==
    <<UOldName, UNewName, UReplace1, <<"-">> \o ULineX, NO_NL, <<"+">> \o ULineY>>
FileEmptyLineBetween ==
    FileReplace \o <<NL, UReplace3, <<"-">> \o ULineX, <<"+">> \o ULineY>>
SingleFiles ==
    {FileGood, FileReplace, FileTwoHunks, FileNoNewlineAtEnd, FileNoNewlineInside,
     FileEmptyLineBetween}

Streams ==
    {StreamNoise, StreamTwoPatches} \cup StreamsBadThenGood \cup SingleFiles \cup
    UNION { [1..n -> StreamLines] : n \in 0..MaxStream }

SInit ==
    /\ spc = "running"
    /\ stream \in Streams
    /\ file_iter = iter_file_patch
    /\ entries = <<>>
    /\ overflow_checks \in BOOLEAN
    /\ patches = <<>>
    /\ LIdle /\ UIdle /\ QIdle /\ HIdle /\ EIdle

\* the loop takes a line and goes on
SplitScan ==
    /\ spc = "running"
    /\ LET r == file_entry_step(stream, file_iter, overflow_checks)
       IN /\ r.tag = "continue"
          /\ file_iter' = r.it
    /\ UNCHANGED <<spc, stream, entries, overflow_checks, patches, not_s>>

\* next returns Some(Ok(entry))
SplitEntry ==
    /\ spc = "running"
    /\ LET r == file_entry_step(stream, file_iter, overflow_checks)
       IN /\ r.tag = "entry"
          /\ file_iter' = r.it
          /\ entries' = Append(entries, r.entry)
          /\ patches' = patches \o parse_patches_item(stream, r.entry)
    /\ UNCHANGED <<spc, stream, overflow_checks, not_s>>

\* next returns Some(Err(MalformedHunkHeader))
SplitError ==
    /\ spc = "running"
    /\ LET r == file_entry_step(stream, file_iter, overflow_checks)
       IN /\ r.tag = "err"
          /\ file_iter' = r.it
          /\ entries' = Append(entries, [kind |-> "Error", nos |-> <<r.it.iter - 1>>])
          /\ patches' = Append(patches, Failed(r.err))
    /\ UNCHANGED <<spc, stream, overflow_checks, not_s>>

\* next returns None
SplitEnd ==
    /\ spc = "running"
    /\ LET r == file_entry_step(stream, file_iter, overflow_checks)
       IN /\ r.tag = "none"
          /\ file_iter' = r.it
    /\ spc' = "ended"
    /\ UNCHANGED <<stream, entries, overflow_checks, patches, not_s>>

\* next panics: a counter decremented below zero in a build with overflow
\* checks, or Hunk::from_header indexing an empty range
SplitPanic ==
    /\ spc = "running"
    /\ LET r == file_entry_step(stream, file_iter, overflow_checks)
       IN /\ r.tag = "panic"
          /\ file_iter' = r.it
    /\ spc' = "panicked"
    /\ UNCHANGED <<stream, entries, overflow_checks, patches, not_s>>

SNext ==
    \/ SplitScan
    \/ SplitEntry
    \/ SplitError
    \/ SplitEnd
    \/ SplitPanic

SplitSpec == SInit /\ [][SNext]_vars

\* C4 (as stated): whenever one entry is yielded before another, every line
\* of the earlier entry occurs before every line of the later one in the input
C4_EntriesInInputOrder ==
    \A i, j \in 1..Len(entries) :
        (i < j /\ entries[i].kind # "Error" /\ entries[j].kind # "Error") =>
            \A a \in 1..Len(entries[i].nos) : \A b \in 1..Len(entries[j].nos) :
                entries[i].nos[a] < entries[j].nos[b]

\* C11 (as stated): when one bad file is followed by a well-formed file,
\* parse_patches does not stop at the bad file: it never panics, and when the
\* stream has ended its last item is the well-formed file as an Ok patch with
\* that file's own names and hunks, every item before it belonging to the
\* bad file
C11_BadFileDoesNotAbort ==
    \A b \in BadFiles :
        stream = b \o FileGood =>
            /\ spc # "panicked"
            /\ spc = "ended" =>
                  /\ patches # <<>>
                  /\ patches[Len(patches)] = parse_patch(FileGood)
                  /\ patches[Len(patches)].kind = "plain"
                  /\ \E i \in 1..(Len(patches) - 1) : patches[i].kind = "err"

----------------------------------------------------------------------------
(* edit/quilt/lex.rs: the series lexer                                     *)

QuiltStops == {" ", "\t", "\n"}

\* first position >= i whose character is in S (Len+1 when none)
read_until(s, i, S) ==
    LET js == {j \in i..Len(s) : s[j] \in S}
    IN IF js = {} THEN Len(s) + 1 ELSE Min(js)

at_line_start(s, i) == i = 1 \/ s[i - 1] = "\n"
prev_is_whitespace(s, i) == i > 1 /\ s[i - 1] \in WsChars
peek_option(s, i) == s[i] = "-"
read_option(s, i) == Tk("OPTION", s, i, read_until(s, i, QuiltStops))
read_patch_name(s, i) == Tk("PATCH_NAME", s, i, read_until(s, i, QuiltStops))
read_text(s, i) == Tk("TEXT", s, i, read_until(s, i, {"\n"}))

\* one call of next_token at position i: the token, the position after it
\* and the in_comment flag after it
Lexed(tok, in_comment) == [tok |-> tok, in_comment |-> in_comment]
next_token(s, i, in_comment) ==
    CASE s[i] = "#" -> Lexed(Tk("HASH", s, i, i + 1), TRUE)
      [] s[i] = " " -> Lexed(Tk("SPACE", s, i, i + 1), in_comment)
      [] s[i] = "\t" -> Lexed(Tk("TAB", s, i, i + 1), in_comment)
      [] s[i] = "\n" -> Lexed(Tk("NEWLINE", s, i, i + 1), FALSE)
      [] OTHER ->
            IF in_comment THEN Lexed(read_text(s, i), in_comment)
            ELSE IF at_line_start(s, i) \/ prev_is_whitespace(s, i)
            THEN IF peek_option(s, i) THEN Lexed(read_option(s, i), in_comment)
                 ELSE Lexed(read_patch_name(s, i), in_comment)
            ELSE Lexed(read_text(s, i), in_comment)

RECURSIVE tokenize_from(_, _, _)
tokenize_push(s, i, r) ==
    <<r.tok>> \o tokenize_from(s, i + Len(r.tok.text), r.in_comment)
tokenize_from(s, i, in_comment) ==
    IF i > Len(s) THEN <<Tk("EOF", s, 1, 1)>>
    ELSE tokenize_push(s, i, next_token(s, i, in_comment))

tokenize(s) == tokenize_from(s, 1, FALSE)

----------------------------------------------------------------------------
(* edit/quilt/parse.rs: the series parser.  A parser state p is the record *)
(* [cursor, out, errors]: Parser.pos, the events handed to the             *)
(* GreenNodeBuilder and Parser.errors; t is Parser.tokens.  A green node   *)
(* is the event list of its subtree.                                       *)

BlankKinds == {"SPACE", "TAB"}

series_at_end(t, p) == p.cursor > Len(t) \/ current_kind(t, p) = "EOF"

consume(t, p) ==
    IF p.cursor <= Len(t)
    THEN [p EXCEPT !.cursor = @ + 1,
                   !.out = Append(@, TokEv(t[p.cursor].kind, t[p.cursor].text))]
    ELSE p

\* consume() repeated while the current kind is in K
consume_while_kind(t, p, K) ==
    LET j == FirstNotIn(t, p.cursor, K)
    IN [p EXCEPT !.cursor = j,
                 !.out = @ \o [i \in 1..(j - p.cursor) |->
                            TokEv(t[p.cursor + i - 1].kind, t[p.cursor + i - 1].text)]]

error(p, message) == [p EXCEPT !.errors = Append(@, message)]

expect(t, p, expected) ==
    IF current_kind(t, p) = expected THEN consume(t, p)
    ELSE token(error(p, <<"Expected", expected, "found", current_kind(t, p)>>),
               "ERROR", <<>>)

has_options_ahead(t, p) == kindAt(t, FirstNotIn(t, p.cursor, BlankKinds)) = "OPTION"

RECURSIVE options_loop(_, _)
options_loop(t, p) ==
    IF current_kind(t, p) = "OPTION"
    THEN options_loop(t, finish_node(consume(t, start_node(p, "OPTION_ITEM"))))
    ELSE IF current_kind(t, p) \in BlankKinds
    THEN options_loop(t, consume(t, p))
    ELSE p

parse_options(t, p) == finish_node(options_loop(t, start_node(p, "OPTIONS")))

consume_newline(t, p) == IF current_kind(t, p) = "NEWLINE" THEN consume(t, p) ELSE p

patch_entry_options(t, p) == IF has_options_ahead(t, p) THEN parse_options(t, p) ELSE p

parse_patch_entry(t, p) ==
    finish_node(consume_newline(t, patch_entry_options(t,
        expect(t, start_node(p, "PATCH_ENTRY"), "PATCH_NAME"))))

comment_text(t, p) == IF current_kind(t, p) = "TEXT" THEN consume(t, p) ELSE p

parse_comment(t, p) ==
    finish_node(consume_newline(t, comment_text(t, consume_while_kind(t,
        expect(t, start_node(p, "COMMENT_LINE"), "HASH"), BlankKinds))))

\* the error branch of parse_entry with the tokens passed over, not consumed
skip_line_dropping(t, p) ==
    LET stop == Min({j \in p.cursor..(Len(t) + 1) :
                        j > Len(t) \/ t[j].kind \in {"NEWLINE", "EOF"}})
    IN [p EXCEPT !.cursor = stop]

\* the error branch of parse_entry: skip to the next line
skip_line(t, p) ==
    LET stop == Min({j \in p.cursor..(Len(t) + 1) :
                        j > Len(t) \/ t[j].kind \in {"NEWLINE", "EOF"}})
    IN [p EXCEPT !.cursor = stop,
                 !.out = @ \o [i \in 1..(stop - p.cursor) |->
                            TokEv(t[p.cursor + i - 1].kind, t[p.cursor + i - 1].text)]]

entry_body(t, p) ==
    CASE current_kind(t, p) = "NEWLINE" -> p
      [] current_kind(t, p) = "HASH" -> parse_comment(t, p)
      [] current_kind(t, p) = "PATCH_NAME" -> parse_patch_entry(t, p)
      [] OTHER -> skip_line(t, error(p, <<"Expected patch name or comment">>))

parse_entry(t, p) ==
    finish_node(entry_body(t,
        consume_while_kind(t, start_node(p, "SERIES_ENTRY"), BlankKinds)))

RECURSIVE parse_loop(_, _)
parse_loop(t, p) ==
    IF series_at_end(t, p) THEN p
    ELSE IF current_kind(t, p) = "NEWLINE" THEN parse_loop(t, consume(t, p))
    ELSE parse_loop(t, parse_entry(t, p))

NewParser == [cursor |-> 1, out |-> <<>>, errors |-> <<>>]

\* Parser::parse: the green node (the builder's events) and the errors
finish_parse(p) == [green |-> p.out, errors |-> p.errors]
parse_series_tokens(t) == finish_parse(finish_node(parse_loop(t, start_node(NewParser, "ROOT"))))
parse_series(text) == parse_series_tokens(tokenize(text))

----------------------------------------------------------------------------
(* edit/quilt/lossless.rs: navigation.  An element is the event list of a  *)
(* token (one event) or of a node (open ... close).                        *)

\* the close event that matches an open one: j scans on, depth counts the
\* nodes open at j
RECURSIVE matching_close(_, _, _)
matching_close(g, j, depth) ==
    IF g[j].e = "close"
    THEN IF depth = 1 THEN j ELSE matching_close(g, j + 1, depth - 1)
    ELSE IF g[j].e = "open" THEN matching_close(g, j + 1, depth + 1)
    ELSE matching_close(g, j + 1, depth)

\* last event of the element that starts at event i of g
element_end(g, i) == IF g[i].e = "tok" THEN i ELSE matching_close(g, i + 1, 1)

RECURSIVE elements_from(_, _)
elements_to(g, i, j) == <<SubSeq(g, i, j)>> \o elements_from(g, j + 1)
elements_from(g, i) ==
    IF i >= Len(g) THEN <<>> ELSE elements_to(g, i, element_end(g, i))

children_with_tokens(g) == elements_from(g, 2)

is_node(el) == el[1].e = "open"
can_cast(el, kind) == is_node(el) /\ el[1].kind = kind

\* the first element of els that satisfies the test, as an Option
FirstNode(els, kind) ==
    LET is == {i \in 1..Len(els) : can_cast(els[i], kind)}
    IN IF is = {} THEN None ELSE Some(els[Min(is)])
FirstToken(els, kind) ==
    LET is == {i \in 1..Len(els) : ~is_node(els[i]) /\ els[i][1].kind = kind}
    IN IF is = {} THEN None ELSE Some(els[Min(is)][1].text)

as_patch_entry(el) == FirstNode(children_with_tokens(el), "PATCH_ENTRY")
as_comment_line(el) == FirstNode(children_with_tokens(el), "COMMENT_LINE")

\* SeriesEntry::cast(node) and then as_patch_entry
patch_of(el) == IF can_cast(el, "SERIES_ENTRY") THEN as_patch_entry(el) ELSE None

name(patch_el) == FirstToken(children_with_tokens(patch_el), "PATCH_NAME")

option_items(options_el) ==
    SelectSeq(children_with_tokens(options_el), LAMBDA c : can_cast(c, "OPTION_ITEM"))
value(item_el) == FirstToken(children_with_tokens(item_el), "OPTION")
options_strings_of(items) ==
    LET vs == [i \in 1..Len(items) |-> value(items[i])]
    IN Concat(vs)
option_strings(patch_el) ==
    LET o == FirstNode(children_with_tokens(patch_el), "OPTIONS")
    IN IF o = None THEN <<>> ELSE options_strings_of(option_items(o[1]))

patch_entries(g) ==
    LET cs == children_with_tokens(g)
        ps == [i \in 1..Len(cs) |-> patch_of(cs[i])]
    IN Concat(ps)

----------------------------------------------------------------------------
(* edit/quilt/editor.rs: the series editor.  Every operation takes the     *)
(* green root g of the tree it edits and returns the root after the edit.  *)

len(g) == Len(patch_entries(g))

\* rowan's splice_children on the root: children from..to (0-based,
\* half-open) are replaced by the elements new; the result is a new root
splice_children(g, from, to, new) ==
    LET cs == children_with_tokens(g)
    IN <<g[1]>> \o Concat(SubSeq(cs, 1, from) \o new \o SubSeq(cs, to + 1, Len(cs)))
           \o <<Close>>

NewBuilder == [out |-> <<>>]

RECURSIVE build_options(_, _, _)
build_options(b, options, i) ==
    IF i > Len(options) THEN b
    ELSE build_options(
            finish_node(token(start_node(
                IF i > 1 THEN token(b, "SPACE", <<" ">>) ELSE b,
                "OPTION_ITEM"), "OPTION", options[i])),
            options, i + 1)

build_patch_entry_green(nm, options) ==
    LET b1 == token(start_node(start_node(NewBuilder, "SERIES_ENTRY"), "PATCH_ENTRY"),
                    "PATCH_NAME", nm)
        b2 == IF options # <<>>
              THEN finish_node(build_options(
                        start_node(token(b1, "SPACE", <<" ">>), "OPTIONS"), options, 1))
              ELSE b1
    IN finish_node(finish_node(token(b2, "NEWLINE", <<"\n">>))).out

\* the loop of insert that finds the insertion point: i is the loop index
\* (0-based), patch_count the patches seen so far
RECURSIVE find_insertion_all_entries(_, _, _, _)
find_insertion_all_entries(cs, index, i, patch_count) ==
    IF i >= Len(cs) THEN i
    ELSE IF can_cast(cs[i + 1], "SERIES_ENTRY")
    THEN IF patch_count = index THEN i
         ELSE find_insertion_all_entries(cs, index, i + 1, patch_count + 1)
    ELSE find_insertion_all_entries(cs, index, i + 1, patch_count)

RECURSIVE find_insertion(_, _, _, _)
find_insertion(cs, index, i, patch_count) ==
    IF i >= Len(cs) THEN i
    ELSE IF patch_of(cs[i + 1]) # None
    THEN IF patch_count = index THEN i
         ELSE find_insertion(cs, index, i + 1, patch_count + 1)
    ELSE find_insertion(cs, index, i + 1, patch_count)

insert_at(g, at_index, el) == splice_children(g, at_index, at_index, <<el>>)

insert(g, index, nm, options) ==
    insert_at(g, find_insertion(children_with_tokens(g), index, 0, 0),
              build_patch_entry_green(nm, options))

push(g, nm, options) == insert(g, len(g), nm, options)
prepend(g, nm, options) == insert(g, 0, nm, options)

\* the loop shared by remove, set_options, rename and move_to: the 0-based
\* index of the first child that is a patch entry called nm, as an Option
find_patch_last(cs, nm) ==
    LET is == {i \in 1..Len(cs) :
                  patch_of(cs[i]) # None /\ name(patch_of(cs[i])[1]) = Some(nm)}
    IN IF is = {} THEN None ELSE Some(Max(is) - 1)

find_patch(cs, nm) ==
    LET is == {i \in 1..Len(cs) :
                  patch_of(cs[i]) # None /\ name(patch_of(cs[i])[1]) = Some(nm)}
    IN IF is = {} THEN None ELSE Some(Min(is) - 1)

Edited(g, ret) == [green |-> g, ret |-> ret]

remove_at(g, found) ==
    IF found = None THEN Edited(g, FALSE)
    ELSE Edited(splice_children(g, found[1], found[1] + 1, <<>>), TRUE)
remove(g, nm) == remove_at(g, find_patch(children_with_tokens(g), nm))

replace_at(g, found, el) ==
    IF found = None THEN Edited(g, FALSE)
    ELSE Edited(splice_children(g, found[1], found[1] + 1, <<el>>), TRUE)

set_options(g, nm, options) ==
    replace_at(g, find_patch(children_with_tokens(g), nm),
               build_patch_entry_green(nm, options))

rename_at(g, cs, found, new_name) ==
    IF found = None THEN Edited(g, FALSE)
    ELSE replace_at(g, found,
            build_patch_entry_green(new_name,
                option_strings(patch_of(cs[found[1] + 1])[1])))
rename(g, old_name, new_name) ==
    rename_at(g, children_with_tokens(g),
              find_patch(children_with_tokens(g), old_name), new_name)

move_at(g, cs, found, nm, new_index) ==
    IF found = None THEN Edited(g, FALSE)
    ELSE Edited(insert(splice_children(g, found[1], found[1] + 1, <<>>), new_index, nm,
                       option_strings(patch_of(cs[found[1] + 1])[1])),
                TRUE)
move_to(g, nm, new_index) ==
    move_at(g, children_with_tokens(g), find_patch(children_with_tokens(g), nm),
            nm, new_index)

\* reorder's first loop: the 1-based positions of the children that are
\* patch entries with a name; every other child is a non-patch position
patch_positions(cs) ==
    {i \in 1..Len(cs) : patch_of(cs[i]) # None /\ name(patch_of(cs[i])[1]) # None}
\* patch_elements.iter().find(|(n, _)| n == nm): the first element called nm
patch_element(cs, nm) ==
    cs[Min({i \in patch_positions(cs) : name(patch_of(cs[i])[1]) = Some(nm)})]

\* reorder: false when a name of new_order names no patch; otherwise every
\* child is removed and, for each patch position of the old tree in turn,
\* the element of the next name of new_order is appended; the non-patch
\* positions are passed over
reorder(g, new_order) ==
    LET cs == children_with_tokens(g)
        names == {name(patch_of(cs[i])[1])[1] : i \in patch_positions(cs)}
        count == Min({Cardinality(patch_positions(cs)), Len(new_order)})
        cleared == splice_children(g, 0, Len(cs), <<>>)
    IN IF \E k \in 1..Len(new_order) : new_order[k] \notin names
       THEN Edited(g, FALSE)
       ELSE Edited(splice_children(cleared, 0, 0,
                       [k \in 1..count |-> patch_element(cs, new_order[k])]),
                   TRUE)

----------------------------------------------------------------------------
(* edit/quilt/mod.rs: trees over a shared green node, and SeriesBuilder    *)

\* Parse::quilt_tree_mut called by thread th: a new mutable tree whose root
\* points at the green node g (green.clone() copies the pointer, not the
\* node).  trs holds, per thread, the tree that thread created, as an Option.
quilt_tree_mut_shared(trs, th, g) ==
    IF \A o \in DOMAIN trs : trs[o] = None
    THEN [trees |-> [trs EXCEPT ![th] = Some([green |-> g])], handle |-> th]
    ELSE [trees |-> trs, handle |-> Min({o \in DOMAIN trs : trs[o] # None})]

quilt_tree_mut(trs, th, g) ==
    [trees |-> [trs EXCEPT ![th] = Some([green |-> g])], handle |-> th]

\* the text SeriesBuilder::build writes for a list of (name, options)
RECURSIVE builder_options_text(_, _)
builder_options_text(options, i) ==
    IF i > Len(options) THEN <<>>
    ELSE <<" ">> \o options[i] \o builder_options_text(options, i + 1)

PatchItem(nm, options) == [kind |-> "Patch", name |-> nm, options |-> options]
CommentItem(text) == [kind |-> "Comment", name |-> text, options |-> <<>>]

builder_text(es) ==
    Concat([i \in 1..Len(es) |->
              IF es[i].kind = "Patch"
              THEN es[i].name \o builder_options_text(es[i].options, 1) \o <<"\n">>
              ELSE <<"#", " ">> \o es[i].name \o <<"\n">>])

SeriesBuilder_build(es) == parse_series(builder_text(es)).green

----------------------------------------------------------------------------
(* Series inputs: texts of up to MaxSeriesLines lines drawn from a line    *)
(* alphabet, with and without the final newline, and longer documents.     *)

MaxSeriesLines == 2
MaxSeriesEdits == 2
MaxSeriesChars == 4
NumThreads == 2
MaxIndex == 2

\* thread 0 is the one that parses; the others edit
Threads == 1..NumThreads
Owners == 0..NumThreads

NameA == <<"a">>
NameB == <<"b">>
NameC == <<"c">>
OptP == <<"-", "p">>
OptQ == <<"-", "q">>

SeriesLines ==
    { NameA, NameB,
      <<"a", " ", "-", "p">>,               \* a patch with an option
      <<"b", "\t", "-", "p", " ", " ", "-", "q">>, \* irregular spacing
      <<"#", " ", "x">>,                    \* a comment
      <<>>,                                 \* a blank line
      <<"a", " ">>,                         \* blanks after the name
      <<"a", " ", "b">> }                   \* two names on one line

RECURSIVE SeriesTexts(_)
SeriesTexts(n) ==
    IF n = 0 THEN {<<>>}
    ELSE LET shorter == SeriesTexts(n - 1)
         IN shorter \cup {l \o <<"\n">> \o s : l \in SeriesLines, s \in shorter}

\* a text whose last line is not terminated
Unterminated(S) == {SubSeq(s, 1, Len(s) - 1) : s \in {x \in S : x # <<>>}}

\* S6 of the specification, with one-letter names
SeriesCommented ==
    <<"#", " ", "x", "\n", "a", "\n", "#", " ", "x", "\n", "b", "\n", "#", " ", "x", "\n">>
\* the text of test_thread_safety_and_concurrent_access, with one-letter names
SeriesShared ==
    <<"a", "\n", "b", " ", "-", "p", "\n", "#", " ", "x", "\n", "a", "\n">>
\* blank lines, indentation, a repeated name and an unterminated comment
SeriesSpaced ==
    <<"#", " ", "x", "\n", "a", "\n", "\n", " ", "b", " ", "-", "p", "\n",
      "a", " ", "-", "q", "\n", "#", "x">>

\* the text of test_preserve_formatting, with one-letter names, and with a
\* blank line, a line of blanks and a line that starts with an option
SeriesFormatted ==
    <<"a", " ", " ", "\t", "-", "p", " ", " ", " ", "\t", "-", "q", "\n",
      "\n", " ", "\t", "\n",
      "#", " ", "x", " ", " ", " ", "x", "\n", "-", "p", " ", "b", "\n", "b", "\n">>

SeriesScenarios == {SeriesCommented, SeriesSpaced}

\* every string of up to MaxSeriesChars characters over the characters the
\* lexer tells apart
SeriesAlphabet == {"a", "-", "#", " ", "\t", "\n"}
SeriesStrings == UNION {[1..n -> SeriesAlphabet] : n \in 0..MaxSeriesChars}

Workload(text, threads, count) == [text |-> text, threads |-> threads, edits |-> count]

Workloads ==
    {Workload(s, 1, 1) : s \in SeriesTexts(MaxSeriesLines) \cup Unterminated(SeriesTexts(MaxSeriesLines))}
        \cup {Workload(s, 1, MaxSeriesEdits) : s \in SeriesScenarios}
        \cup {Workload(SeriesShared, NumThreads, 1)}
        \cup {Workload(s, 1, 0) : s \in SeriesStrings \cup {SeriesFormatted}}

EditNames == {NameA, NameB, NameC}
NewNames == {NameC}
OldNames == {NameA, NameB}
OptionLists == {<<>>, <<OptP>>, <<OptP, OptQ>>}
Indexes == 0..MaxIndex
\* the orders given to reorder: the lists of distinct names, as long as the
\* names a text holds at most
Orders ==
    UNION { {o \in [1..n -> EditNames] : \A i, j \in 1..n : o[i] = o[j] => i = j} :
              n \in 0..Cardinality(OldNames) }

----------------------------------------------------------------------------
(* The series editor as a state machine: quilt::parse, then every thread   *)
(* takes a mutable tree of the parse result and edits it.                  *)

\* a green node is named by the thread that allocated it and its number
\* among that thread's allocations
Id(owner, no) == [owner |-> owner, no |-> no]
GreenAt(id) == greens[id.owner][id.no]

NoEdit == [op |-> "none", name |-> <<>>, index |-> 0, options |-> <<>>,
           to |-> <<>>, order |-> <<>>, before |-> Id(0, 0), ret |-> FALSE]
Edit(op, nm, index, options, to) ==
    [op |-> op, name |-> nm, index |-> index, options |-> options, to |-> to,
     order |-> <<>>, before |-> Id(0, 0), ret |-> FALSE]
ReorderEdit(order) == [Edit("reorder", <<>>, 0, <<>>, <<>>) EXCEPT !.order = order]

QInit ==
    /\ qpc = "start"
    /\ \E w \in Workloads :
          /\ series_text = w.text
          /\ workload = [threads |-> w.threads, edits |-> w.edits]
    /\ greens = [o \in Owners |-> <<>>]
    /\ parsed = None
    /\ trees = [o \in Owners |-> None]
    /\ series = [th \in Threads |-> 0]
    /\ edits = [th \in Threads |-> 0]
    /\ last_edit = [th \in Threads |-> NoEdit]
    /\ snapshot = <<>>
    /\ LIdle /\ UIdle /\ SIdle /\ HIdle /\ EIdle

\* quilt::parse(text): the green node is allocated and held by the Parse
ParseSeries ==
    /\ qpc = "start"
    /\ LET r == parse_series(series_text)
       IN /\ greens' = [greens EXCEPT ![0] = <<r.green>>]
          /\ parsed' = Some([green |-> Id(0, 1), errors |-> r.errors])
          /\ snapshot' = r.green
    /\ qpc' = "parsed"
    /\ UNCHANGED <<series_text, workload, trees, series, edits, last_edit, not_q>>

\* a thread calls parsed.quilt_tree_mut()
OpenTree(th) ==
    /\ qpc = "parsed"
    /\ th <= workload.threads
    /\ series[th] = 0
    /\ LET r == quilt_tree_mut(trees, th, parsed[1].green)
       IN /\ trees' = r.trees
          /\ series' = [series EXCEPT ![th] = r.handle]
    /\ UNCHANGED <<qpc, series_text, workload, greens, parsed, edits, last_edit,
                   snapshot, not_q>>

CanEdit(th) == qpc = "parsed" /\ series[th] # 0 /\ edits[th] < workload.edits

\* the green root of the tree thread th edits
SeriesGreen(th) == GreenAt(trees[series[th]][1].green)

\* the tree of thread th takes the root r.green (a new green node) when the
\* operation spliced; the edit is recorded with the root it started from
Commit(th, e, r) ==
    /\ greens' = IF r.ret THEN [greens EXCEPT ![th] = Append(@, r.green)] ELSE greens
    /\ trees' = IF r.ret
                THEN [trees EXCEPT ![series[th]] =
                                      Some([green |-> Id(th, Len(greens[th]) + 1)])]
                ELSE trees
    /\ edits' = [edits EXCEPT ![th] = @ + 1]
    /\ last_edit' = [last_edit EXCEPT
                        ![th] = [e EXCEPT !.before = trees[series[th]][1].green,
                                          !.ret = r.ret]]
    /\ UNCHANGED <<qpc, series_text, workload, parsed, series, snapshot, not_q>>

Insert(th) ==
    /\ CanEdit(th)
    /\ \E index \in Indexes, nm \in NewNames, options \in OptionLists :
          Commit(th, Edit("insert", nm, index, options, <<>>),
                 Edited(insert(SeriesGreen(th), index, nm, options), TRUE))

Push(th) ==
    /\ CanEdit(th)
    /\ \E nm \in NewNames, options \in OptionLists :
          Commit(th, Edit("push", nm, 0, options, <<>>),
                 Edited(push(SeriesGreen(th), nm, options), TRUE))

Prepend(th) ==
    /\ CanEdit(th)
    /\ \E nm \in NewNames, options \in OptionLists :
          Commit(th, Edit("prepend", nm, 0, options, <<>>),
                 Edited(prepend(SeriesGreen(th), nm, options), TRUE))

Remove(th) ==
    /\ CanEdit(th)
    /\ \E nm \in EditNames :
          Commit(th, Edit("remove", nm, 0, <<>>, <<>>), remove(SeriesGreen(th), nm))

SetOptions(th) ==
    /\ CanEdit(th)
    /\ \E nm \in OldNames, options \in OptionLists :
          Commit(th, Edit("set_options", nm, 0, options, <<>>),
                 set_options(SeriesGreen(th), nm, options))

Rename(th) ==
    /\ CanEdit(th)
    /\ \E nm \in OldNames, new_name \in NewNames :
          Commit(th, Edit("rename", nm, 0, <<>>, new_name),
                 rename(SeriesGreen(th), nm, new_name))

MoveTo(th) ==
    /\ CanEdit(th)
    /\ \E nm \in OldNames, index \in Indexes :
          Commit(th, Edit("move_to", nm, index, <<>>, <<>>),
                 move_to(SeriesGreen(th), nm, index))

Reorder(th) ==
    /\ CanEdit(th)
    /\ \E order \in Orders :
          Commit(th, ReorderEdit(order), reorder(SeriesGreen(th), order))

QNext ==
    \/ ParseSeries
    \/ \E th \in Threads : OpenTree(th)
    \/ \E th \in Threads : Insert(th)
    \/ \E th \in Threads : Push(th)
    \/ \E th \in Threads : Prepend(th)
    \/ \E th \in Threads : Remove(th)
    \/ \E th \in Threads : SetOptions(th)
    \/ \E th \in Threads : Rename(th)
    \/ \E th \in Threads : MoveTo(th)
    \/ \E th \in Threads : Reorder(th)

SeriesSpec == QInit /\ [][QNext]_vars

----------------------------------------------------------------------------
(* Properties of the series editor                                         *)

RemoveAt(sq, j) == SubSeq(sq, 1, j - 1) \o SubSeq(sq, j + 1, Len(sq))

\* how many of the elements are patch entries
PatchCount(els) == Cardinality({i \in 1..Len(els) : patch_of(els[i]) # None})

\* is the element a patch entry with this name and these options
IsPatch(el, nm, options) ==
    /\ patch_of(el) # None
    /\ name(patch_of(el)[1]) = Some(nm)
    /\ option_strings(patch_of(el)[1]) = options

\* 1-based position among the elements of the first patch entry called nm
FirstNamed(els, nm) ==
    Min({i \in 1..Len(els) : patch_of(els[i]) # None /\ name(patch_of(els[i])[1]) = Some(nm)})

\* the roots before and after the last edit of thread th
Before(th) == GreenAt(last_edit[th].before)
After(th) == SeriesGreen(th)

\* the tree after is the tree before with one new patch entry, which is the
\* patch number Min(index, patches before) counting from 0
InsertPlaced(cb, ca, e) ==
    \E j \in 1..Len(ca) :
        /\ RemoveAt(ca, j) = cb
        /\ IsPatch(ca[j], e.name, e.options)
        /\ PatchCount(SubSeq(ca, 1, j - 1)) = Min({e.index, PatchCount(cb)})

\* C7: after insert(index, name, options) the new entry is the patch at
\* position min(index, previous number of patches), and every other child of
\* the root (patch, comment or blank line) is unchanged and in its place
C7_InsertCountsPatches ==
    \A th \in Threads :
        (qpc = "parsed" /\ last_edit[th].op = "insert") =>
            InsertPlaced(children_with_tokens(Before(th)), children_with_tokens(After(th)),
                         last_edit[th])

\* an insert with an out-of-range index into a series that has a comment
\* and a patch, and an insert that landed between two children
C7_Witness ==
    /\ qpc = "parsed"
    /\ \E th \in Threads :
          /\ last_edit[th].op = "insert"
          /\ last_edit[th].index > PatchCount(children_with_tokens(Before(th)))
          /\ PatchCount(children_with_tokens(Before(th))) >= 1
          /\ \E i \in 1..Len(children_with_tokens(Before(th))) :
                as_comment_line(children_with_tokens(Before(th))[i]) # None

\* the text without the line that holds its byte number off + 1
WithoutLine(text, off) ==
    RemoveAt(splitlines(text), Cardinality({i \in 1..off : text[i] = "\n"}) + 1)

\* the bytes before the j-th element
Offset(els, j) == Len(TreeText(Concat(SubSeq(els, 1, j - 1))))

\* C8 (as stated): after remove(name) of a name that is present the text is
\* the original text with the line of the first entry of that name removed
C8_RemoveDeletesLine ==
    \A th \in Threads :
        (qpc = "parsed" /\ last_edit[th].op = "remove" /\ last_edit[th].ret) =>
            LET cb == children_with_tokens(Before(th))
            IN TreeText(After(th)) =
                  Concat(WithoutLine(TreeText(Before(th)),
                                     Offset(cb, FirstNamed(cb, last_edit[th].name))))

\* the n bytes after the first off bytes are cut out of the text; they are a
\* whole line when they start a line and end in "\n"
EntryBytesRemoved(tb, ta, off, n) ==
    /\ ta = SubSeq(tb, 1, off) \o SubSeq(tb, off + n + 1, Len(tb))
    /\ ((off = 0 \/ tb[off] = "\n") /\ tb[off + n] = "\n") =>
            ta = Concat(WithoutLine(tb, off))

\* C8 (amended): remove(name) of a name that is present deletes exactly the
\* first entry of that name: the other children of the root are unchanged
\* and in order, and the text is the original text without that entry's bytes
C8_RemoveDeletesEntry ==
    \A th \in Threads :
        (qpc = "parsed" /\ last_edit[th].op = "remove" /\ last_edit[th].ret) =>
            LET cb == children_with_tokens(Before(th))
                j == FirstNamed(cb, last_edit[th].name)
            IN /\ children_with_tokens(After(th)) = RemoveAt(cb, j)
               /\ EntryBytesRemoved(TreeText(Before(th)), TreeText(After(th)),
                                    Offset(cb, j), Len(TreeText(cb[j])))

\* a remove of an entry that has comments before and after it and an entry
\* of the same name later in the file
C8_Witness ==
    /\ qpc = "parsed"
    /\ \E th \in Threads :
          /\ last_edit[th].op = "remove" /\ last_edit[th].ret
          /\ LET cb == children_with_tokens(Before(th))
                 j == FirstNamed(cb, last_edit[th].name)
             IN /\ \E i \in 1..(j - 1) : as_comment_line(cb[i]) # None
                /\ \E i \in (j + 1)..Len(cb) : as_comment_line(cb[i]) # None
                /\ \E i \in (j + 1)..Len(cb) :
                      patch_of(cb[i]) # None /\ cb[i] # cb[j]
                         /\ name(patch_of(cb[i])[1]) = Some(last_edit[th].name)

\* the (name, options) entries of a tree, in order
LogicalOf(ps) ==
    [i \in 1..Len(ps) |-> PatchItem(name(ps[i])[1], option_strings(ps[i]))]
Logical(g) == LogicalOf(patch_entries(g))

\* the words of a text: what is left when comments (from a word that starts
\* with "#" to the end of its line) and all blanks and newlines are dropped
Untab(l) == [i \in 1..Len(l) |-> IF l[i] = "\t" THEN " " ELSE l[i]]
LineWords(l) ==
    LET ws == SelectSeq(Split(Untab(l), " "), LAMBDA w : w # <<>>)
        cs == {i \in 1..Len(ws) : ws[i][1] = "#"}
    IN IF cs = {} THEN ws ELSE SubSeq(ws, 1, Min(cs) - 1)
WordsOf(ls) == Concat([i \in 1..Len(ls) |-> LineWords(ls[i])])
Words(text) == WordsOf(Split(text, "\n"))

\* C9 (as stated): after a sequence of series edits the rendered bytes are,
\* comments and white space apart, those of the series that SeriesBuilder
\* builds from the final sequence of (name, options) entries
C9_EditsMatchBuilderReplay ==
    \A th \in Threads :
        (qpc = "parsed" /\ series[th] # 0 /\ edits[th] >= 1) =>
            Words(TreeText(SeriesGreen(th))) =
                Words(TreeText(SeriesBuilder_build(Logical(SeriesGreen(th)))))

\* the shared green node and the trees that have not been edited, against the
\* green node that parse built
SharedGreenUnchanged(original) ==
    /\ GreenAt(parsed[1].green) = original
    /\ LET fresh == quilt_tree_mut(trees, 0, parsed[1].green)
       IN /\ TreeText(GreenAt(fresh.trees[fresh.handle][1].green)) = series_text
          /\ Logical(GreenAt(fresh.trees[fresh.handle][1].green)) = Logical(original)
    /\ \A th \in Threads :
          (series[th] # 0 /\ edits[th] = 0) =>
              /\ TreeText(SeriesGreen(th)) = series_text
              /\ Logical(SeriesGreen(th)) = Logical(original)

\* C10: whatever the threads have done to their own trees, the green node of
\* the parse result is the one parse built, a tree freshly made from it has
\* the original entries and renders the original text, and so does the tree
\* of every thread that has not edited yet
C10_SharedGreenUnchanged ==
    qpc = "parsed" => SharedGreenUnchanged(snapshot)

\* two threads have edited their trees of the same green node, and the
\* trees differ from the original and from each other
C10_Witness ==
    /\ qpc = "parsed"
    /\ \E t1, t2 \in Threads :
          /\ t1 # t2
          /\ series[t1] # 0 /\ series[t2] # 0
          /\ last_edit[t1].ret /\ last_edit[t2].ret
          /\ SeriesGreen(t1) # SeriesGreen(t2)
          /\ SeriesGreen(t1) # GreenAt(parsed[1].green)
          /\ SeriesGreen(t2) # GreenAt(parsed[1].green)

----------------------------------------------------------------------------
(* edit/lossless.rs: navigation of the patch tree, and the recovery of the *)
(* lossless parser after a malformed @@ header                             *)

nodes_of_kind(el, kind) == SelectSeq(children_with_tokens(el), LAMBDA c : can_cast(c, kind))

\* Patch::patch_files and PatchFile::hunks
patch_files(root) == nodes_of_kind(root, "PATCH_FILE")
hunks(patch_file) == nodes_of_kind(patch_file, "HUNK")

\* the text of the tokens that are children of the node itself
OwnText(el) ==
    LET cs == children_with_tokens(el)
    IN Concat([i \in 1..Len(cs) |-> IF is_node(cs[i]) THEN <<>> ELSE cs[i][1].text])

\* The document read line by line: a file starts at every "--- " line and
\* lasts to the next one; a block starts at every line that begins with @@
\* and lasts to the next line that begins with @@, --- or +++
IsBoundary(l) ==
    StartsWith(l, Pat2At) \/ StartsWith(l, Pat3Minus) \/ StartsWith(l, Pat3Plus)
SortedSeq(S) == [k \in 1..Cardinality(S) |-> CHOOSE i \in S : Cardinality({j \in S : j < i}) = k - 1]
FileStarts(ls) == SortedSeq({i \in 1..Len(ls) : StartsWith(ls[i], Pat3Minus \o SP)})
FileEnd(ls, starts, k) == IF k < Len(starts) THEN starts[k + 1] - 1 ELSE Len(ls)
BlockEnd(ls, i) ==
    Min({j \in (i + 1)..Len(ls) : IsBoundary(ls[j])} \cup {Len(ls) + 1}) - 1
BlockText(ls, i) == Concat(SubSeq(ls, i, BlockEnd(ls, i)))
IsValidHeader(l) == l = FHunkHeader
\* the blocks of the file on lines a..b whose header is valid (or not), in order
BlocksOf(ls, a, b, valid) ==
    LET is == SortedSeq({i \in a..b : StartsWith(ls[i], Pat2At) /\ IsValidHeader(ls[i]) = valid})
    IN [k \in 1..Len(is) |-> BlockText(ls, is[k])]

RecoveredAsRead(ls, starts, files) ==
    /\ Len(files) = Len(starts)
    /\ \A k \in 1..Len(files) :
          LET valid == BlocksOf(ls, starts[k], FileEnd(ls, starts, k), TRUE)
              bad == BlocksOf(ls, starts[k], FileEnd(ls, starts, k), FALSE)
              hs == hunks(files[k])
          IN /\ Len(hs) = Len(valid)
             /\ \A h \in 1..Len(hs) : TreeText(hs[h]) = valid[h]
             /\ OwnText(files[k]) = Concat(bad)

\* C13: in a finished parse of a unified document, every malformed @@ header
\* and the lines after it up to the next @@, --- or +++ line (or the end) are
\* tokens of the PATCH_FILE itself, every valid hunk of the file, before or
\* after, is a HUNK child of that PATCH_FILE with its own lines, in order,
\* and every file of the document is a PATCH_FILE of its own
C13_MalformedHeaderAbsorbed ==
    (lpc = "done" /\ input \in RecoveryDocs) =>
        RecoveredAsRead(splitlines(input), FileStarts(splitlines(input)),
                        patch_files(builder))

\* a finished parse of a file with a malformed header and the lines after it
\* between two valid hunks, followed by a second file
C13_Witness ==
    /\ lpc = "done"
    /\ input \in RecoveryDocs \ {ScenarioRecovery}
    /\ Len(patch_files(builder)) = 2
    /\ Len(hunks(patch_files(builder)[1])) = 2
    /\ Len(hunks(patch_files(builder)[2])) = 1
    /\ \E b \in BadHeaders :
          /\ StartsWith(OwnText(patch_files(builder)[1]), b)
          /\ Len(OwnText(patch_files(builder)[1])) > Len(b)
          /\ StartsWith(input,
                FOldHeader \o FNewHeader \o TreeText(hunks(patch_files(builder)[1])[1])
                    \o OwnText(patch_files(builder)[1])
                    \o TreeText(hunks(patch_files(builder)[1])[2]))

----------------------------------------------------------------------------
(* The Hunk primitive as a state machine.  A run starts from a Hunk value, *)
(* whose header is written (get_header) or which is asked for a shift      *)
(* (shift_to_mod), or from a header line; a line is parsed (from_header)   *)
(* and the parsed hunk is serialised again (as_bytes).                     *)

MaxHunkLines == 3
MaxPos == 2

\* Hunk values with every combination of positions, ranges and tails
FieldValues == {0, 1, 12}
RangeValues == 0..2
TailF == <<"f">>
TailAts == <<"a", " ", "@", "@", " ", "b">>
TailTwoLines == <<"f", "\n", " ", "x">>
TailInvalid == <<"f", InvalidByte>>
Tails == {None, Some(<<>>), Some(TailF), Some(TailAts), Some(TailTwoLines), Some(TailInvalid)}
PlainHunks ==
    { NewHunk(op, or, mp, mr, tl) :
        op \in FieldValues, or \in RangeValues, mp \in FieldValues, mr \in RangeValues,
        tl \in Tails }

\* well-formed hunks with their lines: the ranges count the lines
HunkLineKinds == {ContextLine(ULineX), InsertLine(ULineY), RemoveLine(ULineX)}
HunkLineSeqs == UNION { [1..n -> HunkLineKinds] : n \in 0..MaxHunkLines }
CountKinds(ls, K) == Cardinality({i \in 1..Len(ls) : ls[i].kind \in K})
HunkOfLines(pos, ls) ==
    [NewHunk(pos, CountKinds(ls, {"Context", "Remove"}),
             IF pos = 0 THEN 1 ELSE pos, CountKinds(ls, {"Context", "Insert"}), None)
        EXCEPT !.lines = ls]
LinedHunks == { HunkOfLines(pos, ls) : pos \in 0..MaxPos, ls \in HunkLineSeqs }

Hunks == PlainHunks \cup LinedHunks
Positions == 0..(MaxPos + MaxHunkLines + 1)

\* header lines  @@ -A[,B] +C[,D] @@[ tail]\n  and lines with one defect
Numbers == {<<"0">>, <<"1">>, <<"1", "2">>, <<"0", "3">>}
Counts == {<<>>, <<",", "0">>, <<",", "1">>, <<",", "2">>}
LineTails == {<<>>, SP, SP \o TailF, SP \o TailAts}
HeaderOf(a, b, c, d, tl) ==
    Pat2At \o <<" ", "-">> \o a \o b \o <<" ", "+">> \o c \o d \o SP \o Pat2At \o tl \o NL
WellFormedHeaders ==
    { HeaderOf(a, b, c, d, tl) :
        a \in Numbers, b \in Counts, c \in Numbers, d \in Counts, tl \in LineTails }

HRanges == <<"-", "3", ",", "2", " ", "+", "5", ",", "6">>
NoOpening == SP \o HRanges \o SP \o Pat2At \o NL
NoClosing == Pat2At \o SP \o HRanges \o SP \o NL
NoSentinels == SP \o HRanges \o SP \o NL
GluedSentinels == Pat2At \o HRanges \o Pat2At \o NL
NoMinus == Pat2At \o SP \o <<"3", ",", "2", " ", "+", "5">> \o SP \o Pat2At \o NL
NoPlus == Pat2At \o SP \o <<"-", "3", ",", "2", " ", "5">> \o SP \o Pat2At \o NL
NoSigns == Pat2At \o SP \o <<"3", " ", "5">> \o SP \o Pat2At \o NL
SwappedSigns == Pat2At \o SP \o <<"+", "5", " ", "-", "3">> \o SP \o Pat2At \o NL
NoOrigRange == Pat2At \o SP \o <<" ", "+", "5">> \o SP \o Pat2At \o NL
NoModRange == Pat2At \o SP \o <<"-", "3", " ">> \o SP \o Pat2At \o NL
OneRange == Pat2At \o SP \o <<"-", "3", ",", "2">> \o SP \o Pat2At \o NL
BadOrigPos == Pat2At \o SP \o <<"-", "3", ".", "5", " ", "+", "5">> \o SP \o Pat2At \o NL
BadOrigCount == Pat2At \o SP \o <<"-", "3", ",", "x", " ", "+", "5">> \o SP \o Pat2At \o NL
BadModPos == Pat2At \o SP \o <<"-", "3", " ", "+", "x">> \o SP \o Pat2At \o NL
BadModCount == Pat2At \o SP \o <<"-", "3", " ", "+", "5", ",", "-", "6">> \o SP \o Pat2At \o NL
BadThirdPart == Pat2At \o SP \o <<"-", "3", ",", "2", ",", "x", " ", "+", "5">> \o SP \o Pat2At \o NL
NoNewline == Pat2At \o SP \o HRanges \o SP \o Pat2At
NoNewlineTail == Pat2At \o SP \o HRanges \o SP \o Pat2At \o SP \o TailF
MissingSentinel == {NoOpening, NoClosing, NoSentinels, GluedSentinels}
MissingSign == {NoMinus, NoPlus, NoSigns, SwappedSigns, NoOrigRange, NoModRange}
NonNumeric == {BadOrigPos, BadOrigCount, BadModPos, BadModCount, BadThirdPart}
MissingNewline == {NoNewline, NoNewlineTail}
DefectiveHeaders == MissingSentinel \cup MissingSign \cup NonNumeric \cup MissingNewline \cup {OneRange}

HeaderLines == WellFormedHeaders \cup DefectiveHeaders

HInit ==
    /\ \/ hpc = "hunk" /\ hunk \in {Some(h) : h \in Hunks} /\ header = <<>>
       \/ hpc = "line" /\ hunk = None /\ header \in HeaderLines
    /\ from_header_result = Pending
    /\ bytes_out = <<>>
    /\ shift_pos = 0
    /\ shift_result = Pending
    /\ hunk_overflow_checks \in BOOLEAN
    /\ LIdle /\ UIdle /\ SIdle /\ QIdle /\ EIdle

\* hunk.get_header()
GetHeader ==
    /\ hpc = "hunk"
    /\ header' = get_header(hunk[1])
    /\ hpc' = "line"
    /\ UNCHANGED <<hunk, from_header_result, bytes_out, shift_pos, shift_result,
                   hunk_overflow_checks, not_h>>

\* Hunk::from_header(header)
FromHeader ==
    /\ hpc = "line"
    /\ from_header_result' = from_header(header)
    /\ hpc' = "parsed"
    /\ UNCHANGED <<hunk, header, bytes_out, shift_pos, shift_result,
                   hunk_overflow_checks, not_h>>

\* as_bytes() of the hunk that from_header returned
AsBytes ==
    /\ hpc = "parsed"
    /\ from_header_result.kind = "ok"
    /\ bytes_out' = hunk_as_bytes(from_header_result.hunk)
    /\ hpc' = "written"
    /\ UNCHANGED <<hunk, header, from_header_result, shift_pos, shift_result,
                   hunk_overflow_checks, not_h>>

\* hunk.shift_to_mod(pos)
ShiftToMod ==
    /\ hpc = "hunk"
    /\ \E pos \in Positions :
          /\ shift_pos' = pos
          /\ shift_result' = shift_to_mod(hunk[1], pos, hunk_overflow_checks)
    /\ hpc' = "shifted"
    /\ UNCHANGED <<hunk, header, from_header_result, bytes_out, hunk_overflow_checks,
                   not_h>>

HNext ==
    \/ GetHeader
    \/ FromHeader
    \/ AsBytes
    \/ ShiftToMod

HunkSpec == HInit /\ [][HNext]_vars

\* equal in orig_pos, orig_range, mod_pos, mod_range and tail
SameFields(a, b) ==
    /\ a.orig_pos = b.orig_pos /\ a.orig_range = b.orig_range
    /\ a.mod_pos = b.mod_pos /\ a.mod_range = b.mod_range
    /\ a.tail = b.tail

\* the serialisation of h parses without error: its header through
\* from_header, and all of it through iter_hunks as one hunk
ParsesWithoutError(h) ==
    /\ from_header(get_header(h)).kind = "ok"
    /\ iter_hunks_next(iter_lines_handle_nl(splitlines(hunk_as_bytes(h)))).kind = "hunk"

TailVerbatim(tail) ==
    tail = None \/ (Utf8Valid(tail[1]) /\ \A i \in 1..Len(tail[1]) : tail[1][i] # "\n")

RECURSIVE StripZeros(_)
StripZeros(ds) == IF Len(ds) > 1 /\ ds[1] = "0" THEN StripZeros(Tail(ds)) ELSE ds
WrittenCount(count) == IF count = <<",", "1">> THEN <<>> ELSE count

C16_DefectiveHeaderRejected ==
    (hpc = "parsed"
        /\ header \in MissingSentinel \cup MissingSign \cup NonNumeric \cup MissingNewline) =>
            from_header_result.kind = "err"

\* C17 (as stated): for a well-formed hunk, shift_to_mod(pos) is 0 for a
\* position strictly before orig_pos - 1, and mod_range - orig_range for a
\* position strictly after orig_pos + orig_range - 1
C17_ShiftOutsideHunk ==
    (hpc = "shifted" /\ hunk[1] \in LinedHunks) =>
        /\ shift_pos < hunk[1].orig_pos - 1 =>
              shift_result = [kind |-> "ok", shift |-> Some(0)]
        /\ shift_pos > hunk[1].orig_pos + hunk[1].orig_range - 1 =>
              shift_result =
                  [kind |-> "ok", shift |-> Some(hunk[1].mod_range - hunk[1].orig_range)]

----------------------------------------------------------------------------
(* ed-style patches (ed.rs)                                                *)

\* EdHunk::Add, EdHunk::Remove, EdHunk::Change
EdAdd(start, end, added) ==
    [kind |-> "Add", start |-> start, end |-> end, expected |-> <<>>, added |-> added]
EdRemove(start, end, expected) ==
    [kind |-> "Remove", start |-> start, end |-> end, expected |-> expected, added |-> <<>>]
EdChange(start, end, expected, added) ==
    [kind |-> "Change", start |-> start, end |-> end, expected |-> expected, added |-> added]

\* the first match of EdPatch::apply, for Remove and Change: the line at
\* start - 1 must be the expected one and is removed.  start - 1 is a usize:
\* for start = 0 it panics in a build with overflow checks and wraps to
\* usize::MAX otherwise, where data.get finds nothing.
ed_remove_step(data, h, checks) ==
    IF h.kind = "Add" THEN [kind |-> "ok", data |-> data]
    ELSE IF h.start # h.end THEN Panicked
    ELSE IF h.start = 0 /\ checks THEN Panicked
    ELSE IF h.start = 0 \/ h.start > Len(data) THEN [kind |-> "err", line |-> h.start]
    ELSE IF data[h.start] # h.expected THEN [kind |-> "err", line |-> h.start]
    ELSE [kind |-> "ok", data |-> RemoveAt(data, h.start)]

\* the second match, for Add and Change: data.insert(start - 1, added).
\* Vec::insert panics when the index is past the length, which is also what
\* the wrapped usize::MAX of start = 0 is.
ed_insert_step(data, h) ==
    IF h.kind = "Remove" THEN [kind |-> "ok", data |-> data]
    ELSE IF h.start # h.end THEN Panicked
    ELSE IF h.start = 0 \/ h.start - 1 > Len(data) THEN Panicked
    ELSE [kind |-> "ok", data |-> InsertAt(data, h.start - 1, h.added)]

\* the loop over the hunks, then data.concat()
RECURSIVE ed_apply_from(_, _, _, _)
ed_apply_from(hs, i, data, checks) ==
    IF i > Len(hs) THEN [kind |-> "ok", bytes |-> Concat(data)]
    ELSE LET r == ed_remove_step(data, hs[i], checks)
         IN  IF r.kind # "ok" THEN r
             ELSE LET a == ed_insert_step(r.data, hs[i])
                  IN  IF a.kind # "ok" THEN a
                      ELSE ed_apply_from(hs, i + 1, a.data, checks)

\* EdPatch::apply
ed_apply(p, data, checks) == ed_apply_from(p.hunks, 1, data, checks)

MaxEdLines == 2
MaxEdStart == 3
MaxEdHunks == 2

LineA == <<"a">> \o NL
LineB == <<"b">> \o NL
EdLines == {LineA, LineB}
EdData == UNION {[1..n -> EdLines] : n \in 0..MaxEdLines}
EdHunks ==
    {EdAdd(n, n, t) : n \in 0..MaxEdStart, t \in EdLines}
        \cup {EdRemove(n, n, LineA) : n \in 0..MaxEdStart}
        \cup {EdChange(n, n, LineA, LineB) : n \in 0..MaxEdStart}
        \cup {EdAdd(1, 2, LineA)}
EdPatches == {[hunks |-> hs] : hs \in UNION {[1..n -> EdHunks] : n \in 1..MaxEdHunks}}

\* splitlines of ed.rs: the lines with their newlines; the last one may
\* have none
RECURSIVE ed_splitlines_from(_, _)
ed_splitlines_from(data, start) ==
    IF start > Len(data) THEN <<>>
    ELSE LET ends == {e \in start..Len(data) : data[e] = "\n"}
             end == IF ends = {} THEN Len(data) ELSE Min(ends)
         IN <<SubSeq(data, start, end)>> \o ed_splitlines_from(data, end + 1)
ed_splitlines(data) == ed_splitlines_from(data, 1)

\* end of the run of digits that starts at i (i itself when there is none)
DigitsEnd(s, i) == Min({j \in i..(Len(s) + 1) : j > Len(s) \/ s[j] \notin Digits})

\* does (\d+)([adc])(\d+)\n match at position i of the line
header_matches_at(s, i) ==
    LET j == DigitsEnd(s, i)
        k == DigitsEnd(s, j + 1)
    IN /\ j > i /\ j <= Len(s) /\ s[j] \in EdLetters
       /\ k > j + 1 /\ k <= Len(s) /\ s[k] = "\n"

\* parse_hunk_header of ed.rs: the captures of the leftmost match of the
\* regex, which is not anchored
ed_parse_hunk_header(line) ==
    LET starts == {i \in 1..Len(line) : header_matches_at(line, i)}
    IN IF starts = {} THEN None
       ELSE LET i == Min(starts)
                j == DigitsEnd(line, i)
            IN Some([cmd |-> line[j],
                     start |-> DecimalValue(SubSeq(line, i, j - 1)),
                     end |-> DecimalValue(SubSeq(line, j + 1, DigitsEnd(line, j + 1) - 1))])

\* parse_hunk_line of ed.rs
ed_parse_hunk_line(prefix, line) ==
    IF StartsWith(line, prefix) THEN Some(SubSeq(line, Len(prefix) + 1, Len(line)))
    ELSE None

OldPrefix == <<"<", " ">>
NewPrefix == <<">", " ">>
EdSeparator == Pat3Minus \o NL

EdOk(hs) == [kind |-> "ok", hunks |-> hs]
EdErr(line) == [kind |-> "err", line |-> line]

\* the payload line after a header: lines.next() and parse_hunk_line, with
\* the error each one gives
ed_payload(lines, i, prefix, header_line) ==
    IF i > Len(lines) THEN EdErr(header_line)
    ELSE IF ed_parse_hunk_line(prefix, lines[i]) = None THEN EdErr(lines[i])
    ELSE [kind |-> "ok", data |-> ed_parse_hunk_line(prefix, lines[i])[1]]

\* EdPatch::parse_patch, the loop over the lines from line i on
RECURSIVE ed_parse_from(_, _, _)
ed_parse_from(lines, i, hs) ==
    IF i > Len(lines) THEN EdOk(hs)
    ELSE
    LET line == lines[i]
        hdr == ed_parse_hunk_header(line)
        h == hdr[1]
        first == ed_payload(lines, i + 1, IF h.cmd = "a" THEN NewPrefix ELSE OldPrefix, line)
        second == ed_payload(lines, i + 3, NewPrefix, lines[i + 2])
    IN IF hdr = None THEN EdErr(line)
       ELSE IF first.kind = "err" THEN first
       ELSE IF h.cmd = "a"
       THEN ed_parse_from(lines, i + 2, Append(hs, EdAdd(h.start, h.end, first.data)))
       ELSE IF h.cmd = "d"
       THEN ed_parse_from(lines, i + 2, Append(hs, EdRemove(h.start, h.end, first.data)))
       ELSE IF i + 2 > Len(lines) THEN EdErr(lines[i + 1])
       ELSE IF lines[i + 2] # EdSeparator THEN EdErr(lines[i + 2])
       ELSE IF second.kind = "err" THEN second
       ELSE ed_parse_from(lines, i + 4,
                          Append(hs, EdChange(h.start, h.end, first.data, second.data)))

ed_parse_patch(text) == ed_parse_from(ed_splitlines(text), 1, <<>>)

\* patch texts: up to MaxEdTextLines lines of headers and payloads, the text
\* of test_parse_patch with one-letter payloads, and changes
MaxEdTextLines == 3

EdHeader(start, cmd, end) == ToDecimal(start) \o <<cmd>> \o ToDecimal(end) \o NL
EdTextLines ==
    { EdHeader(1, "a", 1), EdHeader(0, "a", 0), EdHeader(1, "a", 2), EdHeader(3, "a", 3),
      EdHeader(1, "d", 1), NewPrefix \o LineA, OldPrefix \o LineA }
EdTextParsePatch ==
    Concat(<<EdHeader(5, "a", 10), NewPrefix \o LineA, EdHeader(5, "d", 10),
             OldPrefix \o LineA, EdHeader(5, "c", 10), OldPrefix \o LineA,
             EdSeparator, NewPrefix \o LineA>>)
EdTextChange(n) ==
    Concat(<<EdHeader(n, "c", n), OldPrefix \o LineA, EdSeparator, NewPrefix \o LineB>>)
EdTextUnanchored == <<"x">> \o EdHeader(1, "a", 1) \o NewPrefix \o LineB
EdTexts ==
    {Concat(ls) : ls \in UNION {[1..n -> EdTextLines] : n \in 0..MaxEdTextLines}}
        \cup {EdTextParsePatch, EdTextUnanchored, Concat(<<EdHeader(1, "c", 1), OldPrefix \o LineA>>)}
        \cup {EdTextChange(n) : n \in 0..MaxEdStart}

EInit ==
    /\ \/ epc = "ready" /\ ed_patch \in EdPatches /\ ed_text = <<>>
       \/ epc = "text" /\ ed_patch = <<>> /\ ed_text \in EdTexts
    /\ ed_data \in EdData
    /\ ed_result = Pending
    /\ ed_overflow_checks \in BOOLEAN
    /\ LIdle /\ UIdle /\ SIdle /\ QIdle /\ HIdle

\* EdPatch::parse_patch(text) returns Ok(patch)
EdParsePatch ==
    /\ epc = "text"
    /\ ed_parse_patch(ed_text).kind = "ok"
    /\ ed_patch' = [hunks |-> ed_parse_patch(ed_text).hunks]
    /\ epc' = "ready"
    /\ UNCHANGED <<ed_text, ed_data, ed_result, ed_overflow_checks, not_e>>

\* EdPatch::parse_patch(text) returns Err(line)
EdParseRejected ==
    /\ epc = "text"
    /\ ed_parse_patch(ed_text).kind = "err"
    /\ ed_result' = ed_parse_patch(ed_text)
    /\ epc' = "rejected"
    /\ UNCHANGED <<ed_text, ed_patch, ed_data, ed_overflow_checks, not_e>>

\* patch.apply(data)
EdApply ==
    /\ epc = "ready"
    /\ ed_result' = ed_apply(ed_patch, ed_data, ed_overflow_checks)
    /\ epc' = "applied"
    /\ UNCHANGED <<ed_text, ed_patch, ed_data, ed_overflow_checks, not_e>>

ENext ==
    \/ EdParsePatch
    \/ EdParseRejected
    \/ EdApply

EdSpec == EInit /\ [][ENext]_vars

\* C18: applying a patch of one Add hunk with position n to a line array of
\* at least n lines returns the lines 1..n unchanged, then the added text as
\* line n + 1, then the remaining lines; for n = 0 the added text comes
\* first.
C18_AddInsertsAfter ==
    (/\ epc = "applied"
     /\ Len(ed_patch.hunks) = 1
     /\ ed_patch.hunks[1].kind = "Add"
     /\ ed_patch.hunks[1].start = ed_patch.hunks[1].end
     /\ ed_patch.hunks[1].start <= Len(ed_data)) =>
        LET n == ed_patch.hunks[1].start
        IN  ed_result =
                [kind |-> "ok",
                 bytes |-> Concat(SubSeq(ed_data, 1, n)) \o ed_patch.hunks[1].added
                               \o Concat(SubSeq(ed_data, n + 1, Len(ed_data)))]

----------------------------------------------------------------------------
(* The series parser is lossless                                           *)

\* C19: the tree quilt::parse returns renders back to exactly the text it
\* was given, whatever the text: blank lines, lines of blanks, irregular
\* spacing, comments and lines that are no entry are all kept
C19_SeriesRoundTrip ==
    qpc = "parsed" => (WellNested(snapshot) /\ TreeText(snapshot) = series_text)

\* a text with options after irregular spacing, a blank line, a line of
\* blanks, a comment and a line that is no entry has been parsed
C19_Witness ==
    /\ qpc = "parsed"
    /\ series_text = SeriesFormatted
    /\ TreeText(snapshot) = SeriesFormatted
    /\ parsed[1].errors # <<>>
    /\ PatchCount(children_with_tokens(snapshot)) >= 2

----------------------------------------------------------------------------
(* Reparsing the rendered text of an edited series                         *)

\* C20: whatever the edits made on a tree, parsing its rendered text again
\* yields the same patch entries, in the same order and with the same names
\* and options, as the edited tree itself reports
C20_ReparseSameEntries ==
    \A th \in Threads :
        (qpc = "parsed" /\ series[th] # 0) =>
            Logical(parse_series(TreeText(SeriesGreen(th))).green)
                = Logical(SeriesGreen(th))

----------------------------------------------------------------------------
(* The splitter keeps every line                                           *)

\* the lines the loop of next passes over
Skipped(line) == StartsWith(line, Pat3Star \o SP) \/ StartsWith(line, <<"#">>)

\* the places (item, position in the item) where input line no was yielded
YieldedAt(no) ==
    {<<i, k>> \in (1..Len(entries)) \X (1..Len(stream)) :
        k <= Len(entries[i].nos) /\ entries[i].nos[k] = no}

\* C21: once the iteration over a stream is over, every input line that does
\* not start with "*** " or "#" has been yielded exactly once, in an entry or
\* in an error item, the lines still buffered at the end of the input
\* included
C21_LinesConserved ==
    spc \in {"ended", "panicked"} =>
        \A no \in 1..Len(stream) :
            ~Skipped(stream[no]) => Cardinality(YieldedAt(no)) = 1

\* a counter that was decremented at zero in a build without overflow checks
\* has wrapped around to the top of usize
BelowZero(n) == n + Len(stream) >= UsizeMax

\* C27: while a stream is split, the counters of the lines a hunk still
\* expects never go below zero and no call of next aborts, whatever the
\* lines of a hunk body and however a line that starts with "@@" is malformed
C27_SplitterNeverAborts ==
    /\ spc # "panicked"
    /\ spc \in {"running", "ended"} =>
          /\ ~BelowZero(file_iter.orig_range)
          /\ ~BelowZero(file_iter.mod_range)

----------------------------------------------------------------------------
(* parse_patches against parse_patch                                       *)

\* C22: over a stream that is one well-formed diff for one file,
\* parse_patches yields one item, the patch parse_patch returns for the same
\* lines
C22_OneFileOnePatch ==
    \A f \in SingleFiles :
        (stream = f /\ spc = "ended") =>
            /\ parse_patch(f).kind = "plain"
            /\ patches = <<parse_patch(f)>>

----------------------------------------------------------------------------
(* Where the lines of a hunk land                                          *)

\* lines added less lines removed by the first n hunks
RECURSIVE Growth(_, _)
Growth(hs, n) ==
    IF n = 0 THEN 0 ELSE Growth(hs, n - 1) + hs[n].mod_range - hs[n].orig_range

\* the headers are those diff writes: a range of no lines is given the number
\* of the line before it, and mod_pos is orig_pos moved by the hunks above
HeadersConsistent ==
    \A i \in 1..Len(patch.hunks) :
        LET h == patch.hunks[i]
        IN h.mod_pos + (IF h.mod_range = 0 THEN 1 ELSE 0)
              = h.orig_pos + (IF h.orig_range = 0 THEN 1 ELSE 0)
                    + Growth(patch.hunks, i - 1)

\* the Context and Insert lines of h are the output lines from mod_pos on
LandsAtModPos(h) ==
    /\ h.mod_pos >= 1
    /\ h.mod_pos + h.mod_range - 1 <= Len(collected)
    /\ \A k \in 1..h.mod_range : collected[h.mod_pos + k - 1] = ModSide(h)[k].bytes

\* C23: when a patch from a well-formed diff has been applied with success,
\* the Context and Insert lines of every hunk with mod_range > 0 are the
\* output lines mod_pos .. mod_pos + mod_range - 1, also for a hunk that
\* only inserts
C23_HunkLinesLand ==
    (upc = "applied" /\ WellFormedPatch /\ HeadersConsistent
        /\ apply_result.kind = "ok") =>
        \A h \in HunkSet : h.mod_range > 0 => LandsAtModPos(h)

----------------------------------------------------------------------------
(* The body lines of a hunk in the lossless tree                           *)

\* Hunk::lines: the children of a HUNK node that are line nodes
LineKinds == {"CONTEXT_LINE", "ADD_LINE", "DELETE_LINE"}
lines(hunk_el) ==
    SelectSeq(children_with_tokens(hunk_el),
              LAMBDA c : is_node(c) /\ c[1].kind \in LineKinds)

\* the tree has one file with one hunk whose line children are the lines b
BodyInOneHunk(root, b) ==
    /\ Len(patch_files(root)) = 1
    /\ Len(hunks(patch_files(root)[1])) = 1
    /\ LET ls == lines(hunks(patch_files(root)[1])[1])
       IN /\ Len(ls) = Len(b)
          /\ \A k \in 1..Len(b) : TreeText(ls[k]) = b[k]

\* C24: in the tree of a well-formed unified diff every body line of a hunk
\* is a line child of the HUNK node, whatever its text: a removed line whose
\* text begins with "--" or an added line whose text begins with "++"
\* neither ends the hunk nor starts a file
C24_BodyLinesInHunk ==
    \A b \in HunkBodies :
        (lpc = "done" /\ input = HunkDoc(b)) => BodyInOneHunk(builder, b)

----------------------------------------------------------------------------
(* The path of a file header                                               *)

\* PatchFile::old_file, PatchFile::new_file
old_file(patch_file) == FirstNode(children_with_tokens(patch_file), "OLD_FILE")
new_file(patch_file) == FirstNode(children_with_tokens(patch_file), "NEW_FILE")
\* OldFile::path, NewFile::path: the text of the first PATH token
path(file_el) == FirstToken(children_with_tokens(file_el), "PATH")

\* the headers of the one file of the tree both report the path P
HeadersReport(root, P) ==
    /\ Len(patch_files(root)) = 1
    /\ old_file(patch_files(root)[1]) # None
    /\ new_file(patch_files(root)[1]) # None
    /\ path(old_file(patch_files(root)[1])[1]) = Some(P)
    /\ path(new_file(patch_files(root)[1])[1]) = Some(P)

\* C25: for the header lines "--- P" and "+++ P", with or without a tab and
\* a time stamp, OldFile::path and NewFile::path return exactly P, whatever
\* the characters of P
C25_PathReturned ==
    \A P \in Paths : \A o, m \in Stamps : \A n \in 0..MaxHeaderHunks :
        (lpc = "done" /\ input = HeaderDoc(P, o, m, n)) => HeadersReport(builder, P)

----------------------------------------------------------------------------
(* No hunk is dropped                                                      *)

\* the lines of the input that open a hunk
HeaderLinesOf(ls) == {i \in 1..Len(ls) : StartsWith(ls[i], Pat2At)}

\* C26: parse_patch never returns an Ok patch from which a hunk of the input
\* is missing; when the input ends before the body of a hunk has the lines
\* its header declares, the result is an error
C26_NoHunkDropped ==
    (upc \in {"parsed", "applying", "applied"} /\ parse_result.kind = "plain") =>
        Len(patch.hunks) = Cardinality(HeaderLinesOf(patch_lines))

----------------------------------------------------------------------------
(* Applying what parse_patch accepted                                      *)

\* C28: for every patch that EdPatch::parse_patch accepted and every line
\* array, apply returns Ok or Err and does not abort: also for a hunk whose
\* two header numbers differ, whose line number is 0, or whose line number
\* is beyond the end of the data
C28_ApplyNeverAborts ==
    (epc = "applied" /\ ed_text # <<>>) => ed_result.kind \in {"ok", "err"}

----------------------------------------------------------------------------
(* Termination of the lossless parser: every loop's iteration moves the   *)
(* cursor on, so no run takes infinitely many steps, and a parse that has  *)
(* not finished can always take its next step.                             *)

\* the parser standing at token j
ParserAt(j) == [cursor |-> j, out |-> <<>>]

\* one iteration of each inner loop, started at any token where the loop's
\* condition holds, leaves the cursor further on (the tokens are those of the
\* whole input from the moment the parse starts)
InvalidSkipConsumes ==
    \A j \in 1..Len(tokens) :
        LET p == ParserAt(j)
        IN (~at_end(tokens, p) /\ ~is_hunk_end(tokens, p))
              => skip_to_next_line(tokens, p).cursor > j
HunkBodyConsumes ==
    \A j \in 1..Len(tokens) :
        LET p == ParserAt(j)
        IN (~at_end(tokens, p) /\ ~is_hunk_end(tokens, p))
              => parse_hunk_line(tokens, p).cursor > j
HunksConsume ==
    \A j \in 1..Len(tokens) :
        LET p == ParserAt(j)
        IN (at(tokens, p, "AT") /\ peek_text(tokens, p, 0) = SomeText(Pat2At))
              => parse_hunk(tokens, p).cursor > j
ContextConsumes ==
    \A j \in 1..Len(tokens) :
        LET p == ParserAt(j)
        IN /\ (at(tokens, p, "STAR") /\ looks_like_context_hunk_separator(tokens, p))
                 => parse_context_hunk(tokens, p).cursor > j
           /\ (~at_end(tokens, p) /\ ~is_context_section_end(tokens, p))
                 => parse_context_line(tokens, p).cursor > j
EdContentConsumes ==
    \A j \in 1..Len(tokens) :
        LET p == ParserAt(j)
        IN parse_ed_content_lines(tokens, p).cursor > j
NormalLinesConsume ==
    \A j \in 1..Len(tokens) :
        LET p == ParserAt(j)
        IN /\ at(tokens, p, "LESS_THAN")
                 => parse_normal_old_lines(tokens, p).cursor > j
           /\ at(tokens, p, "GREATER_THAN")
                 => parse_normal_new_lines(tokens, p).cursor > j

\* one iteration of parse_patch's loop, whichever branch it takes
DispatchConsumes ==
    \A j \in 1..Len(tokens) :
        LET p == ParserAt(j)
            branch == Dispatch(tokens, p)
            q == CASE branch = "context_hunk" ->
                        finish_node(parse_context_hunk_without_separator(tokens,
                            start_node(p, "CONTEXT_DIFF_FILE")))
                   [] branch = "context_file" -> parse_context_diff_file(tokens, p)
                   [] branch \in {"unified", "orphan_new"} -> parse_patch_file(tokens, p)
                   [] branch = "normal" -> parse_normal_hunk(tokens, p)
                   [] branch = "ed" -> parse_ed_command(tokens, p)
                   [] branch = "skip" -> skip_to_next_line(tokens, p)
        IN q.cursor > j

LoopsConsume ==
    /\ InvalidSkipConsumes
    /\ DispatchConsumes
    /\ HunkBodyConsumes
    /\ HunksConsume
    /\ ContextConsumes
    /\ EdContentConsumes
    /\ NormalLinesConsume

AllConsumed ==
    /\ cursor = Len(tokens) + 1
    /\ Concat([i \in 1..Len(tokens) |-> tokens[i].text]) = TreeText(builder)

\* C29: the lossless parser terminates on every input: every iteration of
\* every parsing loop (the top-level dispatch, hunk bodies, the skipping of an
\* invalid header, context sections, ed content lines, normal-diff line
\* groups) consumes at least one token, and the parse finishes with every
\* token consumed and a well-nested tree under ROOT returned; no run takes
\* infinitely many steps
C29_ParserTerminates ==
    /\ []((lpc = "parsing" /\ cursor = 1) => LoopsConsume)
    /\ [][(lpc = "parsing" /\ lpc' = "parsing") => cursor' > cursor]_vars
    /\ [](lpc = "done" =>
            (AllConsumed /\ WellNested(builder) /\ builder[1] = Open("ROOT")))
    /\ <>[][FALSE]_vars

\* a finished parse of at least eight tokens whose tree holds a hunk with an
\* added line
C29_Witness ==
    /\ lpc = "done"
    /\ Len(tokens) >= 8
    /\ \E i \in DOMAIN builder : builder[i] = Open("HUNK")
    /\ \E i \in DOMAIN builder : builder[i] = Open("ADD_LINE")

----------------------------------------------------------------------------
(* SeriesFile::reorder                                                     *)

\* the names of the patches of a tree, in order
PatchNames(g) ==
    LET ps == patch_entries(g)
    IN [i \in 1..Len(ps) |-> name(ps[i])[1]]
\* the comment lines of a tree, in order
CommentLines(g) ==
    SelectSeq(children_with_tokens(g),
              LAMBDA c : can_cast(c, "SERIES_ENTRY") /\ as_comment_line(c) # None)
Occurrences(sq, x) == Cardinality({i \in 1..Len(sq) : sq[i] = x})
IsPermutation(a, b) ==
    /\ Len(a) = Len(b)
    /\ \A i \in 1..Len(a) : Occurrences(a, a[i]) = Occurrences(b, a[i])

\* C30: reorder(order), when order is a permutation of the names of the
\* patches, returns true and leaves the patches in exactly that order, and
\* every comment line of the file is still there afterwards
C30_ReorderKeepsComments ==
    \A th \in Threads :
        (/\ qpc = "parsed"
         /\ last_edit[th].op = "reorder"
         /\ IsPermutation(last_edit[th].order, PatchNames(Before(th)))) =>
            /\ last_edit[th].ret
            /\ PatchNames(After(th)) = last_edit[th].order
            /\ CommentLines(After(th)) = CommentLines(Before(th))

====
